---- MODULE Spec2Model ----
(***************************************************************************)
(* Model of the funcbase backend: the table service (runtime DDL, the      *)
(* `_table` catalog, the descriptor/column cache), the HTTP handlers that  *)
(* create and drop tables, and the declarative function interpreter.       *)
(*                                                                         *)
(* The storage engine is SQLite behind gorm.  Its state is the record      *)
(*   [live, indexes, triggers, catalog, rows]                              *)
(* and every SQL statement the code issues is an operator on a pair        *)
(* [db, err]: a statement is skipped once err is set, exactly as the Go    *)
(* code returns at the first non-nil error.                                *)
(***************************************************************************)
EXTENDS Integers, Sequences, FiniteSets, TLC

VARIABLES
    live,       \* sqlite_master tables: name -> [cols, uniques, fks]
    indexes,    \* sqlite_master indexes: index name -> [tbl, cols]
    triggers,   \* sqlite_master triggers: trigger name -> table
    catalog,    \* rows of the catalog table: name -> descriptor row
    rows,       \* user data: table name -> rows in rowid order
    cache,      \* go-cache of TableServiceImpl: key -> stored value
    nextId,     \* number of identifiers the random generator has handed out
    last,       \* the outcome of the last request that changes the schema or the data
    run,        \* the function invocation whose response is on its way to the client
    allowGlobalUpdate,  \* gorm.Config.AllowGlobalUpdate of the database handle
    pending,    \* the request that is being served one statement at a time
    batch       \* the Batch value, its cron schedulers and its goroutines

vars ==
    <<live, indexes, triggers, catalog, rows, cache, nextId, last, run,
      allowGlobalUpdate, pending, batch>>

(***************************************************************************)
(* Generic helpers                                                         *)
(***************************************************************************)
Put(f, k, v) == [x \in DOMAIN f \cup {k} |-> IF x = k THEN v ELSE f[x]]

Del(f, k) == [x \in DOMAIN f \ {k} |-> f[x]]

Restrict(f, S) == [x \in DOMAIN f \cap S |-> f[x]]

SeqRange(s) == {s[i] : i \in DOMAIN s}

EmptyMap == [x \in {} |-> 0]

RECURSIVE SelectSeqBy(_, _)
\* the elements of seq s that are not in set Bad, in order
SelectSeqBy(s, Bad) ==
    IF s = <<>> THEN <<>>
    ELSE IF Head(s).name \in Bad THEN SelectSeqBy(Tail(s), Bad)
    ELSE <<Head(s)>> \o SelectSeqBy(Tail(s), Bad)

(***************************************************************************)
(* Universes of the inputs the handlers are driven with                    *)
(***************************************************************************)
TableNames == {"t1", "t2"}

\* strings.ToLower on the type names and table names that occur
ToLower(s) ==
    CASE s = "Text" -> "text"
      [] s = "TEXT" -> "text"
      [] s = "Relation" -> "relation"
      [] s = "Number" -> "number"
      [] s = "String" -> "string"
      [] s = "REAL" -> "real"
      [] s = "Boolean" -> "boolean"
      [] s = "DateTime" -> "datetime"
      [] s = "Timestamp" -> "timestamp"
      [] s = "File" -> "file"
      [] s = "BLOB" -> "blob"
      [] s = "JSON" -> "json"
      [] s = "AND" -> "and"
      [] s = "OR" -> "or"
      [] OTHER -> s

ADMIN_ONLY == "ADMIN_ONLY"

(***************************************************************************)
(* Storage engine: one operator per SQL statement.  s = [db, err].         *)
(* `fail` is the storage layer rejecting the statement (I/O error, busy    *)
(* database), which the code passes through as an error.                   *)
(***************************************************************************)
Ok(d) == [db |-> d, err |-> ""]

Fail(d, e) == [db |-> d, err |-> e]

EmptyDB ==
    [live |-> EmptyMap, indexes |-> EmptyMap, triggers |-> EmptyMap,
     catalog |-> EmptyMap, rows |-> EmptyMap]

ColNames(def) == {def.cols[i].name : i \in DOMAIN def.cols}

HasDuplicateColumns(cols) ==
    \E i, j \in DOMAIN cols : i # j /\ cols[i].name = cols[j].name

\* CREATE TABLE name (cols, uniques, fks)
ExecCreateTable(s, name, def, fail) ==
    IF s.err # "" THEN s
    ELSE IF fail THEN Fail(s.db, "storage error")
    ELSE IF name \in DOMAIN s.db.live \/ name \in DOMAIN s.db.indexes
        THEN Fail(s.db, "table already exists")
    ELSE IF HasDuplicateColumns(def.cols) THEN Fail(s.db, "duplicate column name")
    ELSE Ok([s.db EXCEPT !.live = Put(@, name, def), !.rows = Put(@, name, <<>>)])

\* CREATE INDEX iname ON tbl (cols)
ExecCreateIndex(s, iname, tbl, cols, fail) ==
    IF s.err # "" THEN s
    ELSE IF fail THEN Fail(s.db, "storage error")
    ELSE IF iname \in DOMAIN s.db.indexes \/ iname \in DOMAIN s.db.live
        THEN Fail(s.db, "index already exists")
    ELSE IF tbl \notin DOMAIN s.db.live THEN Fail(s.db, "no such table")
    ELSE IF ~(SeqRange(cols) \subseteq ColNames(s.db.live[tbl]))
        THEN Fail(s.db, "no such column")
    ELSE Ok([s.db EXCEPT !.indexes = Put(@, iname, [tbl |-> tbl, cols |-> cols])])

\* SELECT count(*) FROM sqlite_master WHERE type = 'trigger' AND name = tname
CountTrigger(d, tname) == IF tname \in DOMAIN d.triggers THEN 1 ELSE 0

\* CREATE TRIGGER tname AFTER UPDATE ON tbl ...
ExecCreateTrigger(s, tname, tbl, fail) ==
    IF s.err # "" THEN s
    ELSE IF fail THEN Fail(s.db, "storage error")
    ELSE IF tname \in DOMAIN s.db.triggers THEN Fail(s.db, "trigger already exists")
    ELSE IF tbl \notin DOMAIN s.db.live THEN Fail(s.db, "no such table")
    ELSE Ok([s.db EXCEPT !.triggers = Put(@, tname, tbl)])

\* DROP TABLE name: the table goes with its rows, indexes and triggers
ExecDropTable(s, name, fail) ==
    IF s.err # "" THEN s
    ELSE IF fail THEN Fail(s.db, "storage error")
    ELSE IF name \notin DOMAIN s.db.live THEN Fail(s.db, "no such table")
    ELSE Ok([s.db EXCEPT
              !.live = Del(@, name),
              !.rows = Del(@, name),
              !.indexes = Restrict(@, {i \in DOMAIN @ : @[i].tbl # name}),
              !.triggers = Restrict(@, {t \in DOMAIN @ : @[t] # name})])

RenameFks(def, old, new) ==
    [def EXCEPT !.fks = [i \in DOMAIN @ |->
        IF @[i].to = old THEN [@[i] EXCEPT !.to = new] ELSE @[i]]]

\* ALTER TABLE old RENAME TO new: indexes and triggers stay attached under
\* their own names, foreign keys that point at the table follow it
ExecRenameTable(s, old, new, fail) ==
    IF s.err # "" THEN s
    ELSE IF fail THEN Fail(s.db, "storage error")
    ELSE IF old \notin DOMAIN s.db.live THEN Fail(s.db, "no such table")
    ELSE IF new \in DOMAIN s.db.live \/ new \in DOMAIN s.db.indexes
        THEN Fail(s.db, "there is already another table or index with this name")
    ELSE LET moved == Put(Del(s.db.live, old), new, s.db.live[old]) IN
         Ok([s.db EXCEPT
              !.live = [n \in DOMAIN moved |-> RenameFks(moved[n], old, new)],
              !.rows = Put(Del(@, old), new, @[old]),
              !.indexes = [i \in DOMAIN @ |->
                  IF @[i].tbl = old THEN [@[i] EXCEPT !.tbl = new] ELSE @[i]],
              !.triggers = [t \in DOMAIN @ |-> IF @[t] = old THEN new ELSE @[t]]])

\* DROP INDEX iname
ExecDropIndex(s, iname, fail) ==
    IF s.err # "" THEN s
    ELSE IF fail THEN Fail(s.db, "storage error")
    ELSE IF iname \notin DOMAIN s.db.indexes THEN Fail(s.db, "no such index")
    ELSE Ok([s.db EXCEPT !.indexes = Del(@, iname)])

\* DROP INDEX IF EXISTS iname
ExecDropIndexIfExists(s, iname, fail) ==
    IF s.err # "" THEN s
    ELSE IF fail THEN Fail(s.db, "storage error")
    ELSE Ok([s.db EXCEPT !.indexes = Del(@, iname)])

\* an insert that replaces the row of the same name
CatalogCreateOrReplace(s, name, row, fail) ==
    IF s.err # "" THEN s
    ELSE IF fail THEN Fail(s.db, "storage error")
    ELSE Ok([s.db EXCEPT !.catalog = Put(@, name, row)])

\* INSERT INTO catalog: name is the primary key
CatalogCreate(s, name, row, fail) ==
    IF s.err # "" THEN s
    ELSE IF fail THEN Fail(s.db, "storage error")
    ELSE IF name \in DOMAIN s.db.catalog THEN Fail(s.db, "UNIQUE constraint failed")
    ELSE Ok([s.db EXCEPT !.catalog = Put(@, name, row)])

\* UPDATE catalog SET name = new WHERE name = old
CatalogUpdateName(s, old, new, fail) ==
    IF s.err # "" THEN s
    ELSE IF fail THEN Fail(s.db, "storage error")
    ELSE IF old \notin DOMAIN s.db.catalog THEN s
    ELSE IF new # old /\ new \in DOMAIN s.db.catalog
        THEN Fail(s.db, "UNIQUE constraint failed")
    ELSE Ok([s.db EXCEPT !.catalog = Put(Del(@, old), new, @[old])])

\* DELETE FROM catalog WHERE name = ?
CatalogDelete(s, name, fail) ==
    IF s.err # "" THEN s
    ELSE IF fail THEN Fail(s.db, "storage error")
    ELSE Ok([s.db EXCEPT !.catalog = Del(@, name)])

\* DELETE FROM catalog WHERE lower(name) = ?
CatalogDeleteLower(s, lowered, fail) ==
    IF s.err # "" THEN s
    ELSE IF fail THEN Fail(s.db, "storage error")
    ELSE Ok([s.db EXCEPT
              !.catalog = Restrict(@, {n \in DOMAIN @ : ToLower(n) # lowered})])

(***************************************************************************)
(* DDL generation: model.Field, TableServiceImpl.Create                    *)
(***************************************************************************)
\* (*Field).ConvertTypeToSQLiteType: case-insensitive
ConvertTypeToSQLiteType(f) ==
    LET t == ToLower(f.type) IN
    CASE t \in {"text", "string"} -> "TEXT"
      [] t \in {"number", "real"} -> "REAL"
      [] t = "boolean" -> "BOOLEAN"
      [] t \in {"datetime", "timestamp"} -> "DATETIME"
      [] t \in {"file", "blob"} -> "BLOB"
      [] t = "relation" -> "RELATION"
      [] OTHER -> ""

Col(name, type, notnull, pk, dflt) ==
    [name |-> name, type |-> type, notnull |-> notnull, pk |-> pk, dflt |-> dflt]

AuthFields ==
    << Col("email", "TEXT", TRUE, FALSE, ""),
       Col("password", "TEXT", TRUE, FALSE, ""),
       Col("salt", "TEXT", TRUE, FALSE, "") >>

TimestampFields ==
    << Col("created_at", "TIMESTAMP", FALSE, FALSE, "CURRENT_TIMESTAMP"),
       Col("updated_at", "TIMESTAMP", FALSE, FALSE, "CURRENT_TIMESTAMP") >>

RECURSIVE FieldColumns(_)
\* the column of every field whose type is supported, in input order
FieldColumns(fields) ==
    IF fields = <<>> THEN <<>>
    ELSE LET f == Head(fields)
             dtype == ConvertTypeToSQLiteType(f) IN
         IF dtype = "" THEN FieldColumns(Tail(fields))
         ELSE <<Col(f.name, IF dtype = "RELATION" THEN "TEXT" ELSE dtype,
                    ~f.nullable, FALSE, "")>> \o FieldColumns(Tail(fields))

RECURSIVE FieldUniques(_)
FieldUniques(fields) ==
    IF fields = <<>> THEN <<>>
    ELSE LET f == Head(fields) IN
         IF ConvertTypeToSQLiteType(f) # "" /\ f.unique
         THEN <<f.name>> \o FieldUniques(Tail(fields))
         ELSE FieldUniques(Tail(fields))

RECURSIVE FieldForeignKeys(_)
FieldForeignKeys(fields) ==
    IF fields = <<>> THEN <<>>
    ELSE LET f == Head(fields) IN
         IF ConvertTypeToSQLiteType(f) = "RELATION"
         THEN <<[from |-> f.name, to |-> f.reference]>> \o FieldForeignKeys(Tail(fields))
         ELSE FieldForeignKeys(Tail(fields))

\* The entries of the slice `fields` that is joined into CREATE TABLE: a column
\* definition, a UNIQUE (name) clause or a FOREIGN KEY (name) REFERENCES clause
ColumnClauses(cols) ==
    [i \in DOMAIN cols |-> [kind |-> "column", col |-> cols[i], to |-> ""]]

UniqueClauses(names) ==
    [i \in DOMAIN names |->
        [kind |-> "unique", col |-> Col(names[i], "", FALSE, FALSE, ""), to |-> ""]]

ForeignKeyClauses(fks) ==
    [i \in DOMAIN fks |->
        [kind |-> "fk", col |-> Col(fks[i].from, "", FALSE, FALSE, ""), to |-> fks[i].to]]

\* the slice in the opposite order of its last appends: constraints first
CreateClausesConstraintsFirst(params) ==
    ColumnClauses(<<Col("id", "INTEGER", FALSE, TRUE, "")>>)
        \o ForeignKeyClauses(FieldForeignKeys(params.fields))
        \o UniqueClauses(FieldUniques(params.fields))
        \o ColumnClauses(IF params.type = "users" THEN AuthFields ELSE <<>>)
        \o ColumnClauses(FieldColumns(params.fields))
        \o ColumnClauses(TimestampFields)

\* `fields` as TableServiceImpl.Create has built it when it formats the query:
\* id, the auth columns, one column per supported field, the timestamps, then
\* append(append(fields, uniques...), foreignKeys...)
CreateClauses(params) ==
    ColumnClauses(<<Col("id", "INTEGER", FALSE, TRUE, "")>>)
        \o ColumnClauses(IF params.type = "users" THEN AuthFields ELSE <<>>)
        \o ColumnClauses(FieldColumns(params.fields))
        \o ColumnClauses(TimestampFields)
        \o UniqueClauses(FieldUniques(params.fields))
        \o ForeignKeyClauses(FieldForeignKeys(params.fields))

RECURSIVE ClausesOfKind(_, _)
ClausesOfKind(clauses, kind) ==
    IF clauses = <<>> THEN <<>>
    ELSE IF Head(clauses).kind = kind
        THEN <<Head(clauses)>> \o ClausesOfKind(Tail(clauses), kind)
    ELSE ClausesOfKind(Tail(clauses), kind)

\* the table SQLite builds from the clause list: the columns in the order of
\* their definitions, and the table constraints
DefOf(clauses) ==
    LET cs == ClausesOfKind(clauses, "column")
        us == ClausesOfKind(clauses, "unique")
        fs == ClausesOfKind(clauses, "fk") IN
    [cols |-> [i \in DOMAIN cs |-> cs[i].col],
     uniques |-> [i \in DOMAIN us |-> us[i].col.name],
     fks |-> [i \in DOMAIN fs |-> [from |-> fs[i].col.name, to |-> fs[i].to]]]

\* the table of TableServiceImpl.Create
CreateDef(params) == DefOf(CreateClauses(params))

TriggerName(tableName) == "updated_timestamp_" \o tableName

\* the empty string stored in a TEXT column, and encoding/json on index lists
EmptyText == [json |-> FALSE, items |-> <<>>]

JsonMarshal(v) == [json |-> TRUE, items |-> v]

JsonUnmarshal(text) ==
    IF text.json THEN [err |-> "", items |-> text.items]
    ELSE [err |-> "unexpected end of JSON input", items |-> <<>>]

\* a row of the catalog; the rule columns take their column default
CatalogRow(auth, system, indexesText) ==
    [auth |-> auth, system |-> system, indexes |-> indexesText,
     view_rule |-> ADMIN_ONLY, read_rule |-> ADMIN_ONLY, insert_rule |-> ADMIN_ONLY,
     update_rule |-> ADMIN_ONLY, delete_rule |-> ADMIN_ONLY]

RECURSIVE CreateIndexes(_, _, _, _)
CreateIndexes(s, tableName, idxs, fail) ==
    IF idxs = <<>> THEN s
    ELSE CreateIndexes(
            ExecCreateIndex(s, Head(idxs).name, tableName, Head(idxs).indexes, fail),
            tableName, Tail(idxs), fail)

\* TableServiceImpl.Create(tx, params): every statement goes through tx
Create(s, params, fault) ==
    LET isAuth == params.type = "users"
        s1 == ExecCreateTable(s, params.name, CreateDef(params), fault = "table")
        s2 == CreateIndexes(s1, params.name, params.indexes, fault = "index")
        s3 == IF s2.err = "" /\ fault = "count" THEN Fail(s2.db, "storage error") ELSE s2
        triggerHolder == CountTrigger(s3.db, TriggerName(params.name))
        s4 == IF triggerHolder = 0
              THEN ExecCreateTrigger(s3, TriggerName(params.name), params.name,
                                     fault = "trigger")
              ELSE s3
    IN  CatalogCreate(s4, params.name,
                      CatalogRow(isAuth, FALSE, JsonMarshal(params.indexes)),
                      fault = "catalog")

\* TableServiceImpl.Rename(tx, tableName, newTableName)
Rename(s, tableName, newTableName, fault) ==
    ExecRenameTable(CatalogUpdateName(s, tableName, newTableName, fault = "catalog"),
                    tableName, newTableName, fault = "table")

\* TableServiceImpl.Drop(tx, tableName)
Drop(s, tableName, fault) ==
    ExecDropTable(CatalogDelete(s, tableName, fault = "catalog"),
                  tableName, fault = "table")

RECURSIVE DropIndexes(_, _, _)
\* TableServiceImpl.DropIndexes(tx, indexes)
DropIndexes(s, idxs, fault) ==
    IF idxs = <<>> THEN s
    ELSE DropIndexes(ExecDropIndexIfExists(s, Head(idxs), fault = "index"),
                     Tail(idxs), fault)

(***************************************************************************)
(* model.Migrate                                                           *)
(***************************************************************************)
\* db.AutoMigrate(&Admin{}, &Tables{}, &QueryHistory{}, &FunctionStored{}):
\* creates the system tables that are missing and never drops anything.  The
\* system tables are not user tables, and live holds the user tables only.
AutoMigrate(s, fail) ==
    IF s.err # "" THEN s
    ELSE IF fail THEN Fail(s.db, "storage error")
    ELSE s

\* the rows Migrate seeds: Indexes is left at its zero value, the empty string
Databases ==
    << [name |-> "_admin", row |-> CatalogRow(TRUE, TRUE, EmptyText)],
       [name |-> "_queryHistory", row |-> CatalogRow(FALSE, TRUE, EmptyText)],
       [name |-> "_function", row |-> CatalogRow(FALSE, TRUE, EmptyText)] >>

\* db.Model(&Tables{}).Create(rows): one INSERT of all rows, name is the
\* primary key
CatalogCreateAll(s, entries, fail) ==
    IF s.err # "" THEN s
    ELSE IF fail THEN Fail(s.db, "storage error")
    ELSE IF \E i \in DOMAIN entries : entries[i].name \in DOMAIN s.db.catalog
        THEN Fail(s.db, "UNIQUE constraint failed")
    ELSE Ok([s.db EXCEPT !.catalog =
                [n \in DOMAIN @ \cup {entries[i].name : i \in DOMAIN entries} |->
                    IF n \in DOMAIN @ THEN @[n]
                    ELSE entries[CHOOSE i \in DOMAIN entries : entries[i].name = n].row]])

\* model.Migrate(db)
Migrate(s, fault) ==
    CatalogCreateAll(AutoMigrate(s, fault = "table"), Databases, fault = "catalog")

(***************************************************************************)
(* gorm's db.Transaction(fn): commit when fn returns nil, roll back to the *)
(* state before the call when it returns an error.  Only statements sent   *)
(* through the tx handle belong to the transaction.                        *)
(***************************************************************************)
TransactionWithoutRollback(pre, s) == s.db

\* db.Transaction(fc): commit when fc returns nil, roll back when it returns an
\* error or panics
Transaction(pre, s) == IF s.err = "" THEN s.db ELSE pre

(***************************************************************************)
(* HTTP handlers DatabaseAPIImpl.CreateTable / DeleteTable                 *)
(***************************************************************************)
\* (*fields).convertTypeToSQLiteType: case-sensitive
fields_convertTypeToSQLiteType(f) ==
    CASE f.FieldType = "text" -> "TEXT"
      [] f.FieldType = "number" -> "REAL"
      [] f.FieldType = "boolean" -> "BOOLEAN"
      [] f.FieldType = "datetime" -> "DATETIME"
      [] f.FieldType = "file" -> "BLOB"
      [] f.FieldType = "relation" -> "RELATION"
      [] OTHER -> ""

RECURSIVE ReqColumns(_)
ReqColumns(fs) ==
    IF fs = <<>> THEN <<>>
    ELSE LET f == Head(fs)
             dtype == fields_convertTypeToSQLiteType(f) IN
         IF dtype = "" THEN ReqColumns(Tail(fs))
         ELSE <<Col(f.FieldName, IF dtype = "RELATION" THEN "TEXT" ELSE dtype,
                    ~f.Nullable, FALSE, "")>> \o ReqColumns(Tail(fs))

RECURSIVE ReqUniques(_)
ReqUniques(fs) ==
    IF fs = <<>> THEN <<>>
    ELSE LET f == Head(fs) IN
         IF fields_convertTypeToSQLiteType(f) # "" /\ f.Unique
         THEN <<f.FieldName>> \o ReqUniques(Tail(fs))
         ELSE ReqUniques(Tail(fs))

RECURSIVE ReqForeignKeys(_)
ReqForeignKeys(fs) ==
    IF fs = <<>> THEN <<>>
    ELSE LET f == Head(fs) IN
         IF fields_convertTypeToSQLiteType(f) = "RELATION"
         THEN <<[from |-> f.FieldName, to |-> f.RelatedTable]>> \o ReqForeignKeys(Tail(fs))
         ELSE ReqForeignKeys(Tail(fs))

RECURSIVE ReqIndexes(_)
\* CREATE INDEX idx_<field> ON <table> (<field>) for every indexed field
ReqIndexes(fs) ==
    IF fs = <<>> THEN <<>>
    ELSE LET f == Head(fs) IN
         IF fields_convertTypeToSQLiteType(f) # "" /\ f.Indexed
         THEN <<[name |-> "idx_" \o f.FieldName, indexes |-> <<f.FieldName>>]>>
              \o ReqIndexes(Tail(fs))
         ELSE ReqIndexes(Tail(fs))

IdColumn(idType) ==
    IF idType = "string" THEN Col("id", "TEXT", FALSE, TRUE, "hex(randomblob(8))")
    ELSE Col("id", "TEXT", FALSE, TRUE, "")

\* `fields` as the CreateTable handler has built it when it formats the query
ReqClauses(req) ==
    ColumnClauses(<<IdColumn(req.IDType)>>)
        \o ColumnClauses(IF req.Type = "users" THEN AuthFields ELSE <<>>)
        \o ColumnClauses(ReqColumns(req.Fields))
        \o ColumnClauses(TimestampFields)
        \o UniqueClauses(ReqUniques(req.Fields))
        \o ForeignKeyClauses(ReqForeignKeys(req.Fields))

ReqDef(req) == DefOf(ReqClauses(req))

\* The closure handed to d.db.Transaction in CreateTable.  It receives tx but
\* sends every statement through d.db, the connection pool: each statement
\* commits on its own and the rollback of tx has nothing to undo.  The
\* result is the database as the statements left it.
CreateTableStatements(d, req, fault) ==
    LET isAuth == req.Type = "users"
        s1 == ExecCreateTable(Ok(d), req.TableName, ReqDef(req), fault = "table")
        s2 == CreateIndexes(s1, req.TableName, ReqIndexes(req.Fields), fault = "index")
        s3 == IF s2.err = "" /\ fault = "count" THEN Fail(s2.db, "storage error") ELSE s2
        triggerHolder == CountTrigger(s3.db, TriggerName(req.TableName))
        s4 == IF triggerHolder = 0
              THEN ExecCreateTrigger(s3, TriggerName(req.TableName), req.TableName,
                                     fault = "trigger")
              ELSE s3
    IN  CatalogCreate(s4, req.TableName, CatalogRow(isAuth, FALSE, EmptyText),
                      fault = "catalog")

\* DatabaseAPIImpl.CreateTable: [db, err] after the handler returned
CreateTable(d, req, fault) ==
    IF req.IDType \notin {"string", "manual"} THEN Fail(d, "Invalid id type")
    ELSE CreateTableStatements(d, req, fault)

\* DatabaseAPIImpl.DeleteTable: DROP TABLE, then the catalog row, both via d.db
DeleteTable(d, tableName, fault) ==
    CatalogDeleteLower(ExecDropTable(Ok(d), tableName, fault = "table"),
                       ToLower(tableName), fault = "catalog")

\* One statement of the CreateTable closure.  Every d.db call is a statement
\* of its own on a pooled connection, and other requests are served between
\* two of them.  pc 1 is CREATE TABLE, then one CREATE INDEX per indexed
\* field, the trigger count, CREATE TRIGGER when the count was zero, and the
\* catalog insert.
CreateTableStatement(d, req, pc, triggerHolder) ==
    LET idxs == ReqIndexes(req.Fields)
        n == Len(idxs)
        Res(s, holder) ==
            [db |-> s.db, err |-> s.err, pc |-> pc + 1, triggerHolder |-> holder]
    IN  IF pc = 1
        THEN Res(ExecCreateTable(Ok(d), req.TableName, ReqDef(req), FALSE), 0)
        ELSE IF pc <= n + 1
        THEN Res(ExecCreateIndex(Ok(d), idxs[pc - 1].name, req.TableName,
                                 idxs[pc - 1].indexes, FALSE), 0)
        ELSE IF pc = n + 2
        THEN Res(Ok(d), CountTrigger(d, TriggerName(req.TableName)))
        ELSE IF pc = n + 3
        THEN IF triggerHolder = 0
             THEN Res(ExecCreateTrigger(Ok(d), TriggerName(req.TableName),
                                        req.TableName, FALSE), triggerHolder)
             ELSE Res(Ok(d), triggerHolder)
        ELSE Res(CatalogCreate(Ok(d), req.TableName,
                               CatalogRow(req.Type = "users", FALSE, EmptyText), FALSE),
                 triggerHolder)

\* the number of steps of the CreateTable closure
CreateTableLength(req) == Len(ReqIndexes(req.Fields)) + 4

\* One statement of the DeleteTable closure: DROP TABLE, then the catalog row
DeleteTableStatement(d, tableName, pc) ==
    LET s == IF pc = 1 THEN ExecDropTable(Ok(d), tableName, FALSE)
             ELSE CatalogDeleteLower(Ok(d), ToLower(tableName), FALSE)
    IN  [db |-> s.db, err |-> s.err, pc |-> pc + 1, triggerHolder |-> 0]

(***************************************************************************)
(* TableServiceImpl.Info and TableServiceImpl.Columns, with their cache    *)
(***************************************************************************)
TABLE_INFO_DEFAULT ==
    <<"name", "auth", "indexes", "system", "view_rule", "read_rule",
      "insert_rule", "update_rule", "delete_rule">>

RECURSIVE Join(_, _)
\* strings.Join
Join(elems, sep) ==
    IF elems = <<>> THEN ""
    ELSE IF Len(elems) = 1 THEN elems[1]
    ELSE elems[1] \o sep \o Join(Tail(elems), sep)

InfoCacheKey(infoNeeded, tableName) == "table_" \o Join(infoNeeded, ";") \o tableName

ColumnsCacheKey(tableName) == "columns_" \o tableName

\* the zero value of model.Tables
ZeroTables ==
    [name |-> "", auth |-> FALSE, system |-> FALSE, indexes |-> EmptyText,
     index |-> <<>>, view_rule |-> "", read_rule |-> "", insert_rule |-> "",
     update_rule |-> "", delete_rule |-> ""]

\* SELECT <infoNeeded> FROM catalog WHERE name = ? scanned into model.Tables:
\* columns that were not selected keep their zero value
SelectTables(row, tableName, infoNeeded) ==
    LET want == SeqRange(infoNeeded) IN
    [name |-> IF "name" \in want THEN tableName ELSE "",
     auth |-> IF "auth" \in want THEN row.auth ELSE FALSE,
     system |-> IF "system" \in want THEN row.system ELSE FALSE,
     indexes |-> IF "indexes" \in want THEN row.indexes ELSE EmptyText,
     index |-> <<>>,
     view_rule |-> IF "view_rule" \in want THEN row.view_rule ELSE "",
     read_rule |-> IF "read_rule" \in want THEN row.read_rule ELSE "",
     insert_rule |-> IF "insert_rule" \in want THEN row.insert_rule ELSE "",
     update_rule |-> IF "update_rule" \in want THEN row.update_rule ELSE "",
     delete_rule |-> IF "delete_rule" \in want THEN row.delete_rule ELSE ""]

InfoResult(c, err, table) == [cache |-> c, err |-> err, table |-> table]

\* what Info does on a cache miss: query, decode the index list, store
InfoFromDb(c, d, cacheKey, tableName, infoNeeded) ==
    IF tableName \notin DOMAIN d.catalog
    THEN InfoResult(c, "record not found", ZeroTables)
    ELSE LET table == SelectTables(d.catalog[tableName], tableName, infoNeeded) IN
         IF "indexes" \in SeqRange(infoNeeded)
         THEN LET dec == JsonUnmarshal(table.indexes) IN
              IF dec.err # "" THEN InfoResult(c, dec.err, table)
              ELSE LET full == [table EXCEPT !.index = dec.items] IN
                   InfoResult(Put(c, cacheKey, full), "", full)
         ELSE InfoResult(Put(c, cacheKey, table), "", table)

\* TableServiceImpl.Info(tableName, infoNeeded...) on cache c and committed db d
Info(c, d, tableName, infoArg) ==
    LET infoNeeded == IF Len(infoArg) = 0 THEN TABLE_INFO_DEFAULT ELSE infoArg
        cacheKey == InfoCacheKey(infoNeeded, tableName) IN
    IF cacheKey \in DOMAIN c THEN InfoResult(c, "", c[cacheKey])
    ELSE InfoFromDb(c, d, cacheKey, tableName, infoNeeded)

\* pragma_table_info(t) LEFT JOIN pragma_foreign_key_list(t), with the type
\* of a column that has a foreign key remapped to RELATION
PragmaColumns(d, tableName) ==
    IF tableName \notin DOMAIN d.live THEN <<>>
    ELSE LET def == d.live[tableName]
             Ref(name) == IF \E k \in DOMAIN def.fks : def.fks[k].from = name
                          THEN def.fks[CHOOSE k \in DOMAIN def.fks :
                                         def.fks[k].from = name].to
                          ELSE "" IN
         [i \in DOMAIN def.cols |->
            [cid |-> i - 1,
             name |-> def.cols[i].name,
             type |-> IF Ref(def.cols[i].name) # "" THEN "RELATION"
                      ELSE def.cols[i].type,
             pk |-> def.cols[i].pk,
             notnull |-> def.cols[i].notnull,
             dflt_value |-> def.cols[i].dflt,
             reference |-> Ref(def.cols[i].name)]]

\* the redaction of Columns for a table whose descriptor says auth
CleanedResult(result, fetchAuthColumn) ==
    IF fetchAuthColumn THEN SelectSeqBy(result, {"salt"})
    ELSE SelectSeqBy(result, {"password", "salt"})

ColumnsResult(c, err, result) == [cache |-> c, err |-> err, result |-> result]

\* Columns from the call of Info on, with the rows the pragma query returned
ColumnsAfterPragma(c, d, cacheKey, tableName, fetchAuthColumn, result) ==
    LET info == Info(c, d, tableName, <<>>) IN
    IF info.err # "" THEN ColumnsResult(info.cache, info.err, <<>>)
    ELSE IF info.table.auth
        THEN ColumnsResult(info.cache, "", CleanedResult(result, fetchAuthColumn))
    ELSE ColumnsResult(Put(info.cache, cacheKey, result), "", result)

\* what Columns does on a cache miss
ColumnsFromDb(c, d, cacheKey, tableName, fetchAuthColumn) ==
    ColumnsAfterPragma(c, d, cacheKey, tableName, fetchAuthColumn,
                       PragmaColumns(d, tableName))

\* TableServiceImpl.Columns(tableName, fetchAuthColumn)
Columns(c, d, tableName, fetchAuthColumn) ==
    LET cacheKey == ColumnsCacheKey(tableName) IN
    IF cacheKey \in DOMAIN c THEN ColumnsResult(c, "", c[cacheKey])
    ELSE ColumnsFromDb(c, d, cacheKey, tableName, fetchAuthColumn)

\* DatabaseAPIImpl.FetchTableColumns: fetch_auth_column comes from the query
\* string; the handler looks at no caller identity
FetchTableColumns(c, d, tableName, fetchAuthColumn, privileged) ==
    Columns(c, d, tableName, fetchAuthColumn)

(***************************************************************************)
(* Values: what encoding/json decodes into interface{} (nil, string,       *)
(* number, []interface{}, map[string]interface{}) and what a fetch step    *)
(* records ([]map[string]interface{}, kind "rows")                         *)
(***************************************************************************)
Value(kind, str, items, obj, rws) ==
    [kind |-> kind, str |-> str, items |-> items, obj |-> obj, rows |-> rws]

Nil == Value("nil", "", <<>>, EmptyMap, <<>>)

Str(s) == Value("string", s, <<>>, EmptyMap, <<>>)

Num(s) == Value("number", s, <<>>, EmptyMap, <<>>)

List(items) == Value("list", "", items, EmptyMap, <<>>)

Obj(m) == Value("object", "", <<>>, m, <<>>)

Rows(rws) == Value("rows", "", <<>>, EmptyMap, rws)

\* m[k] of a Go map: the zero value when the key is absent
Lookup(m, k) == IF k \in DOMAIN m THEN m[k] ELSE Nil

\* the kinds the database driver accepts as a statement argument
ScalarKinds == {"nil", "string", "number"}

(***************************************************************************)
(* Storage engine: row statements                                          *)
(***************************************************************************)
ColumnOf(def, c) == CHOOSE col \in SeqRange(def.cols) : col.name = c

DefaultOf(def, c) ==
    IF ColumnOf(def, c).dflt = "" THEN Nil ELSE Str(ColumnOf(def, c).dflt)

NewRow(def, m) ==
    [c \in ColNames(def) |-> IF c \in DOMAIN m THEN m[c] ELSE DefaultOf(def, c)]

\* the columns whose non-null values identify a row: primary key and UNIQUE
KeyColumns(def) ==
    {col.name : col \in {x \in SeqRange(def.cols) : x.pk}} \cup SeqRange(def.uniques)

\* the constraint a row violates on its own, "" if none
RowViolation(def, r) ==
    IF \E col \in SeqRange(def.cols) : col.notnull /\ r[col.name].kind = "nil"
        THEN "NOT NULL constraint failed"
    ELSE IF \E col \in SeqRange(def.cols) :
                col.pk /\ col.type = "INTEGER" /\ r[col.name].kind = "string"
        THEN "datatype mismatch"
    ELSE ""

Collides(def, r1, r2) ==
    \E c \in KeyColumns(def) : r1[c].kind # "nil" /\ r1[c] = r2[c]

RECURSIVE InsertRows(_, _, _)
InsertRows(def, existing, inputs) ==
    IF inputs = <<>> THEN [rows |-> existing, err |-> ""]
    ELSE LET r == NewRow(def, Head(inputs)) IN
         IF RowViolation(def, r) # ""
             THEN [rows |-> existing, err |-> RowViolation(def, r)]
         ELSE IF \E i \in DOMAIN existing : Collides(def, r, existing[i])
             THEN [rows |-> existing, err |-> "UNIQUE constraint failed"]
         ELSE InsertRows(def, Append(existing, r), Tail(inputs))

\* INSERT INTO tbl (keys) VALUES (...), (...): one statement, all rows or none
ExecInsert(s, tbl, inputs) ==
    IF s.err # "" THEN s
    ELSE IF tbl \notin DOMAIN s.db.live THEN Fail(s.db, "no such table")
    ELSE IF \E i \in DOMAIN inputs : ~(DOMAIN inputs[i] \subseteq ColNames(s.db.live[tbl]))
        THEN Fail(s.db, "no such column")
    ELSE IF \E i \in DOMAIN inputs : \E c \in DOMAIN inputs[i] :
                inputs[i][c].kind \notin ScalarKinds
        THEN Fail(s.db, "unsupported type")
    ELSE LET r == InsertRows(s.db.live[tbl], s.db.rows[tbl], inputs) IN
         IF r.err # "" THEN Fail(s.db, r.err)
         ELSE Ok([s.db EXCEPT !.rows[tbl] = r.rows])

\* UPDATE tbl SET m WHERE id = idv (no statement is built when m is empty)
ExecUpdate(s, tbl, idv, m) ==
    IF s.err # "" THEN s
    ELSE IF DOMAIN m = {} THEN s
    ELSE IF tbl \notin DOMAIN s.db.live THEN Fail(s.db, "no such table")
    ELSE IF ~((DOMAIN m \cup {"id"}) \subseteq ColNames(s.db.live[tbl]))
        THEN Fail(s.db, "no such column")
    ELSE IF idv.kind \notin ScalarKinds \/ \E c \in DOMAIN m : m[c].kind \notin ScalarKinds
        THEN Fail(s.db, "unsupported type")
    ELSE LET def == s.db.live[tbl]
             old == s.db.rows[tbl]
             hit == {i \in DOMAIN old : idv.kind # "nil" /\ old[i]["id"] = idv}
             new == [i \in DOMAIN old |->
                        IF i \in hit
                        THEN [c \in DOMAIN old[i] |->
                                 IF c \in DOMAIN m THEN m[c] ELSE old[i][c]]
                        ELSE old[i]]
         IN  IF \E i \in hit : RowViolation(def, new[i]) # ""
                 THEN Fail(s.db, "constraint failed")
             ELSE IF \E i \in hit, j \in DOMAIN new : i # j /\ Collides(def, new[i], new[j])
                 THEN Fail(s.db, "UNIQUE constraint failed")
             ELSE Ok([s.db EXCEPT !.rows[tbl] = new])

\* one condition of a WHERE clause; only equality is modelled
Matches(r, cond) == cond.value.kind # "nil" /\ r[cond.Column] = cond.value

\* DELETE FROM tbl WHERE cond AND cond ...; gorm refuses a delete without
\* conditions unless the database was opened with AllowGlobalUpdate
ExecDelete(s, tbl, conds) ==
    IF s.err # "" THEN s
    ELSE IF conds = {} /\ ~allowGlobalUpdate THEN Fail(s.db, "WHERE conditions required")
    ELSE IF tbl \notin DOMAIN s.db.live THEN Fail(s.db, "no such table")
    ELSE IF \E cond \in conds : cond.Operator # " = ?" THEN Fail(s.db, "syntax error")
    ELSE IF \E cond \in conds : cond.Column \notin ColNames(s.db.live[tbl])
        THEN Fail(s.db, "no such column")
    ELSE IF \E cond \in conds : cond.value.kind \notin ScalarKinds
        THEN Fail(s.db, "unsupported type")
    ELSE LET Keep(r) == \E cond \in conds : ~Matches(r, cond) IN
         Ok([s.db EXCEPT !.rows[tbl] = SelectSeq(@, Keep)])

\* SELECT columns FROM tbl (every column when none is named), in rowid order
ExecSelect(d, tbl, columns) ==
    IF tbl \notin DOMAIN d.live THEN [err |-> "no such table", result |-> <<>>]
    ELSE IF ~(SeqRange(columns) \subseteq ColNames(d.live[tbl]))
        THEN [err |-> "no such column", result |-> <<>>]
    ELSE LET cs == IF columns = <<>> THEN ColNames(d.live[tbl]) ELSE SeqRange(columns) IN
         [err |-> "",
          result |-> [i \in DOMAIN d.rows[tbl] |-> [c \in cs |-> d.rows[tbl][i][c]]]]

(***************************************************************************)
(* FunctionAPIImpl.RunFunction                                             *)
(***************************************************************************)
\* the template strings in use; strings.HasPrefix(v, "$") and v[1:] on them
Tokens == {"$A", "$B", "$C", "$user.id"}

HasDollarPrefix(v) == v \in Tokens

StripDollar(v) ==
    CASE v = "$A" -> "A"
      [] v = "$B" -> "B"
      [] v = "$C" -> "C"
      [] v = "$user.id" -> "user.id"
      [] OTHER -> v

\* utils.GenerateRandomString(16): the n-th identifier handed out
GenerateRandomString(n) == "id" \o ToString(n)

Bound(result) == [panic |-> FALSE, result |-> result]

Panicked == [panic |-> TRUE, result |-> <<>>]

BindSingularInputUnstripped(template, input, savedData, userID) ==
    IF \E k \in DOMAIN template : template[k].kind # "string" THEN Panicked
    ELSE Bound([k \in DOMAIN template |->
                  LET v == template[k].str IN
                  IF HasDollarPrefix(v)
                  THEN IF v = "$user.id" THEN Str(userID) ELSE Lookup(savedData, v)
                  ELSE Lookup(input, k)])

BindSingularInputLiteral(template, input, savedData, userID) ==
    IF \E k \in DOMAIN template : template[k].kind # "string" THEN Panicked
    ELSE Bound([k \in DOMAIN template |->
                  LET v == template[k].str IN
                  IF HasDollarPrefix(v)
                  THEN IF v = "$user.id" THEN Str(userID)
                       ELSE Lookup(savedData, StripDollar(v))
                  ELSE Str(v)])

\* v.(string) panics on a template value that is not a string
BindSingularInput(template, input, savedData, userID) ==
    IF \E k \in DOMAIN template : template[k].kind # "string" THEN Panicked
    ELSE Bound([k \in DOMAIN template |->
                  LET v == template[k].str IN
                  IF HasDollarPrefix(v)
                  THEN IF v = "$user.id" THEN Str(userID)
                       ELSE Lookup(savedData, StripDollar(v))
                  ELSE Lookup(input, k)])

\* input.(map[string]interface{}) panics on an element that is not an object
BindMultipleInput(template, inputs, savedData, userID) ==
    IF \E i \in DOMAIN inputs : inputs[i].kind # "object" THEN Panicked
    ELSE IF \E i \in DOMAIN inputs :
                BindSingularInput(template, inputs[i].obj, savedData, userID).panic
        THEN Panicked
    ELSE Bound([i \in DOMAIN inputs |->
                  BindSingularInput(template, inputs[i].obj, savedData, userID).result])

\* the closure's state: the transaction's view of the database, the error it
\* returns (or the panic that leaves it), savedData, and a record of what each
\* completed step wrote
Start(d, nid) ==
    [db |-> d, err |-> "", panic |-> FALSE, saved |-> EmptyMap, nextId |-> nid,
     log |-> <<>>]

Panic(st) == [st EXCEPT !.err = "panic", !.panic = TRUE]

Stepped(st, s, inputs, saved, nid) ==
    IF s.err # "" THEN [st EXCEPT !.err = s.err]
    ELSE [st EXCEPT !.db = s.db, !.saved = saved, !.nextId = nid,
                    !.log = Append(@, [inputs |-> inputs, saved |-> saved,
                                       rows |-> s.db.rows])]

WithIds(bindedInput, nid) ==
    [i \in DOMAIN bindedInput |->
        Put(bindedInput[i], "id", Str(GenerateRandomString(nid + i)))]

\* case "insert"
InsertStep(st, f, data, userID) ==
    LET payload == Lookup(data, f.Name) IN
    IF f.Multiple
    THEN IF payload.kind # "list" THEN Panic(st)
         ELSE LET b == BindMultipleInput(f.Values, payload.items, st.saved, userID) IN
              IF b.panic THEN Panic(st)
              ELSE LET bindedInput == WithIds(b.result, st.nextId) IN
                   Stepped(st, ExecInsert(Ok(st.db), f.Table, bindedInput), bindedInput,
                           st.saved, st.nextId + Len(bindedInput))
    ELSE IF payload.kind # "object" THEN Panic(st)
         ELSE LET b == BindSingularInput(f.Values, payload.obj, st.saved, userID) IN
              IF b.panic THEN Panic(st)
              ELSE LET bindedInput == WithIds(<<b.result>>, st.nextId) IN
                   Stepped(st, ExecInsert(Ok(st.db), f.Table, bindedInput), bindedInput,
                           Put(st.saved, f.Name, bindedInput[1]["id"]), st.nextId + 1)

\* case "update": caller.Data[f.Name].([]map[string]interface{}) fails for
\* every decoded JSON value, so the multiple form panics
UpdateStep(st, f, data, userID) ==
    LET payload == Lookup(data, f.Name) IN
    IF f.Multiple THEN Panic(st)
    ELSE IF payload.kind # "object" THEN Panic(st)
    ELSE LET b == BindSingularInput(f.Values, payload.obj, st.saved, userID) IN
         IF b.panic THEN Panic(st)
         ELSE Stepped(st, ExecUpdate(Ok(st.db), f.Table, Lookup(payload.obj, "id"), b.result),
                      <<b.result>>, st.saved, st.nextId)

\* the filter map of a delete step: one entry per Column+Operator, the last
\* filter with that key wins
DeleteFilter(filters, data) ==
    LET key(i) == filters[i].Column \o filters[i].Operator
        lastOf(k) == CHOOSE i \in DOMAIN filters :
                        key(i) = k /\ \A j \in DOMAIN filters : key(j) = k => j <= i
    IN  {[Column |-> filters[lastOf(key(n))].Column,
          Operator |-> filters[lastOf(key(n))].Operator,
          value |-> IF filters[lastOf(key(n))].Value = ""
                    THEN Lookup(data, filters[lastOf(key(n))].Column)
                    ELSE Str(filters[lastOf(key(n))].Value)] : n \in DOMAIN filters}

\* case "delete"
DeleteStep(st, f, data) ==
    LET payload == Lookup(data, f.Name) IN
    IF payload.kind # "object" THEN Panic(st)
    ELSE Stepped(st, ExecDelete(Ok(st.db), f.Table, DeleteFilter(f.Filter, payload.obj)),
                 <<>>, st.saved, st.nextId)

FetchStepAlone(st, f) ==
    LET r == ExecSelect(st.db, f.Table, f.Columns) IN
    Stepped(st, [db |-> st.db, err |-> r.err], <<>>,
            [n \in {f.Name} |-> Rows(r.result)], st.nextId)

\* case "fetch"
FetchStep(st, f) ==
    LET r == ExecSelect(st.db, f.Table, f.Columns) IN
    Stepped(st, [db |-> st.db, err |-> r.err], <<>>,
            Put(st.saved, f.Name, Rows(r.result)), st.nextId)

\* a loop body that refuses an action it does not know
RunStepStrict(st, f, data, userID) ==
    CASE f.Action = "insert" -> InsertStep(st, f, data, userID)
      [] f.Action = "update" -> UpdateStep(st, f, data, userID)
      [] f.Action = "delete" -> DeleteStep(st, f, data)
      [] f.Action = "fetch" -> FetchStep(st, f)
      [] OTHER -> [st EXCEPT !.err = "unknown action"]

\* one iteration of the loop over the stored function's steps
RunStep(st, f, data, userID) ==
    CASE f.Action = "insert" -> InsertStep(st, f, data, userID)
      [] f.Action = "update" -> UpdateStep(st, f, data, userID)
      [] f.Action = "delete" -> DeleteStep(st, f, data)
      [] f.Action = "fetch" -> FetchStep(st, f)
      [] OTHER -> Stepped(st, Ok(st.db), <<>>, st.saved, st.nextId)

RECURSIVE RunSteps(_, _, _, _)
RunSteps(st, functions, data, userID) ==
    IF functions = <<>> \/ st.err # "" THEN st
    ELSE RunSteps(RunStep(st, Head(functions), data, userID), Tail(functions),
                  data, userID)

Outcome(d, nid, status, err, saved, log) ==
    [db |-> d, nextId |-> nid, status |-> status, err |-> err, saved |-> saved,
     log |-> log]

\* POST /function/run/:func_name.  stored is the row found under func_name,
\* caller the decoded request body, paramUser the user_id of the request context.
RunFunction(d, nid, stored, caller, paramUser) ==
    IF paramUser.kind \notin {"nil", "string"}
        THEN Outcome(d, nid, "panic", "panic", EmptyMap, <<>>)
    ELSE IF ~stored.found
        THEN Outcome(d, nid, "not found", "function does not exist", EmptyMap, <<>>)
    ELSE LET st == RunSteps(Start(d, nid), stored.functions, caller.Data, paramUser.str) IN
         Outcome(Transaction(d, [db |-> st.db, err |-> st.err]),
                 IF st.err = "" THEN st.nextId ELSE nid,
                 IF st.panic THEN "panic" ELSE IF st.err # "" THEN "error" ELSE "ok",
                 st.err, st.saved, st.log)

(***************************************************************************)
(* applyFilter and the gorm query it builds                                *)
(***************************************************************************)
\* tx.Table(name): a query on one table with an empty WHERE clause.  Where
\* and Or add their expression to the clause of the query they are called on
\* and return that same query (a chain is not cloned once it has started), so
\* in applyFilter query and tx are one object, and query.Where(tx), which
\* adds the clause of tx as a parenthesised group to the clause it was taken
\* from, selects the same rows as the clause itself.
Table(name) == [table |-> name, where |-> <<>>, panic |-> FALSE]

\* query.Where(fmt.Sprintf("%s = ?", key), value)
Where(query, key, value) ==
    [query EXCEPT !.where = Append(@, [or |-> FALSE, key |-> key, value |-> value])]

\* query.Or(fmt.Sprintf("%s = ?", key), value)
Or(query, key, value) ==
    [query EXCEPT !.where = Append(@, [or |-> TRUE, key |-> key, value |-> value])]

\* the loop over ors[1:]: every key of every further condition is added with
\* Or as a plain comparison, in whatever order the map yields its keys;
\* condition.(map[string]interface{}) panics on anything but an object
RECURSIVE applyOrRest(_, _)
applyOrRest(queries, ors) ==
    IF ors = <<>> THEN queries
    ELSE LET RECURSIVE keys(_, _)
             keys(q, m) ==
                 IF DOMAIN m = {} THEN {q}
                 ELSE UNION {keys(Or(q, k, m[k]), Restrict(m, DOMAIN m \ {k})) :
                                k \in DOMAIN m}
         IN  applyOrRest(
                UNION {IF q.panic THEN {q}
                       ELSE IF Head(ors).kind # "object" THEN {[q EXCEPT !.panic = TRUE]}
                       ELSE keys(q, Head(ors).obj) : q \in queries},
                Tail(ors))

\* applyFilter(query, filter): the queries it can return, one for each order
\* in which the map yields its keys.  value.([]interface{}) panics on
\* anything but a list, ors[0] on an empty list.
RECURSIVE applyFilter(_, _)
applyFilter(query, filter) ==
    IF query.panic \/ DOMAIN filter = {} THEN {query}
    ELSE UNION {
        LET value == filter[key]
            RECURSIVE conditions(_, _)
            conditions(queries, items) ==
                IF items = <<>> THEN queries
                ELSE conditions(
                        UNION {IF q.panic THEN {q}
                               ELSE IF Head(items).kind # "object"
                                   THEN {[q EXCEPT !.panic = TRUE]}
                               ELSE applyFilter(q, Head(items).obj) : q \in queries},
                        Tail(items))
        IN  CASE ToLower(key) = "and" ->
                    IF value.kind # "list" THEN {[query EXCEPT !.panic = TRUE]}
                    ELSE UNION {applyFilter(q, Restrict(filter, DOMAIN filter \ {key})) :
                                   q \in conditions({query}, value.items)}
              [] ToLower(key) = "or" ->
                    IF value.kind # "list" \/ value.items = <<>>
                        THEN {[query EXCEPT !.panic = TRUE]}
                    ELSE applyOrRest(conditions({query}, <<Head(value.items)>>),
                                     Tail(value.items))
              [] OTHER -> {Where(query, key, value)}
        : key \in DOMAIN filter}

\* the WHERE clause as SQL reads it: the expressions in order, each joined to
\* the one before by OR if it was added with Or and by AND otherwise, AND
\* binding tighter; gorm moves the first expression that was not added with
\* Or to the front.  A comparison with NULL is never true.
Holds(where, r) ==
    LET first == IF \E i \in DOMAIN where : ~where[i].or
                 THEN CHOOSE i \in DOMAIN where :
                         ~where[i].or /\ \A j \in 1..(i - 1) : where[j].or
                 ELSE 1
        w == [i \in DOMAIN where |->
                 IF i = 1 THEN where[first] ELSE IF i = first THEN where[1] ELSE where[i]]
        Eq(i) == w[i].value.kind # "nil" /\ r[w[i].key] = w[i].value
    IN  \E g \in DOMAIN w :
            /\ g = 1 \/ w[g].or
            /\ \A i \in g..Len(w) : (\A j \in (g + 1)..i : ~w[j].or) => Eq(i)

\* query.Updates(m): UPDATE table SET m WHERE ...  No statement is built when
\* m is empty; gorm refuses an update without conditions unless the database
\* was opened with AllowGlobalUpdate; a key that is not a column of the table
\* ("priority>", "and") makes the statement fail.
ExecUpdates(s, query, m) ==
    IF s.err # "" THEN s
    ELSE IF DOMAIN m = {} THEN s
    ELSE IF query.where = <<>> /\ ~allowGlobalUpdate
        THEN Fail(s.db, "WHERE conditions required")
    ELSE IF query.table \notin DOMAIN s.db.live THEN Fail(s.db, "no such table")
    ELSE IF \E i \in DOMAIN query.where :
                query.where[i].key \notin ColNames(s.db.live[query.table])
        THEN Fail(s.db, "syntax error or no such column")
    ELSE IF ~(DOMAIN m \subseteq ColNames(s.db.live[query.table]))
        THEN Fail(s.db, "no such column")
    ELSE IF \/ \E i \in DOMAIN query.where : query.where[i].value.kind \notin ScalarKinds
            \/ \E c \in DOMAIN m : m[c].kind \notin ScalarKinds
        THEN Fail(s.db, "unsupported type")
    ELSE LET def == s.db.live[query.table]
             old == s.db.rows[query.table]
             hit == {i \in DOMAIN old : query.where = <<>> \/ Holds(query.where, old[i])}
             new == [i \in DOMAIN old |->
                        IF i \in hit
                        THEN [c \in DOMAIN old[i] |->
                                 IF c \in DOMAIN m THEN m[c] ELSE old[i][c]]
                        ELSE old[i]]
         IN  IF \E i \in hit : RowViolation(def, new[i]) # ""
                 THEN Fail(s.db, "constraint failed")
             ELSE IF \E i \in hit, j \in DOMAIN new : i # j /\ Collides(def, new[i], new[j])
                 THEN Fail(s.db, "UNIQUE constraint failed")
             ELSE Ok([s.db EXCEPT !.rows[query.table] = new])

(***************************************************************************)
(* api_function: RunFunction over the commands of the request body         *)
(***************************************************************************)
\* the loop that replaces "$user": v.(string) panics on a value that is not a
\* string, c.Get("user_id").(string) on a request without a user
BindUser(data, paramUser) ==
    IF \E k \in DOMAIN data : data[k].kind # "string" THEN Panicked
    ELSE IF paramUser.kind # "string" /\ \E k \in DOMAIN data : data[k].str = "$user"
        THEN Panicked
    ELSE Bound([k \in DOMAIN data |-> IF data[k].str = "$user" THEN paramUser ELSE data[k]])

\* case "insert": the row, then its children, which all get the one childrenId
InsertCommand(st, insert, paramUser) ==
    LET b == BindUser(insert.Data, paramUser) IN
    IF b.panic THEN Panic(st)
    ELSE LET id == Str(GenerateRandomString(st.nextId + 1))
             data == Put(b.result, "id", id)
             created == ExecInsert(Ok(st.db), insert.Table, <<data>>)
         IN  IF created.err # "" \/ insert.Children.Table = ""
                    \/ Len(insert.Children.Data) = 0
             THEN Stepped(st, created, <<data>>, st.saved, st.nextId + 1)
             ELSE LET childrenId == Str(GenerateRandomString(st.nextId + 2))
                      children == [i \in DOMAIN insert.Children.Data |->
                                      Put(Put(insert.Children.Data[i], insert.Table, id),
                                          "id", childrenId)]
                  IN  Stepped(st, ExecInsert(created, insert.Children.Table, children),
                              <<data>> \o children, st.saved, st.nextId + 2)

\* case "update"
UpdateCommand(st, update, paramUser) ==
    LET b == BindUser(update.Data, paramUser) IN
    IF b.panic THEN {Panic(st)}
    ELSE {IF query.panic THEN Panic(st)
          ELSE Stepped(st, ExecUpdates(Ok(st.db), query, b.result), <<b.result>>,
                       st.saved, st.nextId) :
             query \in applyFilter(Table(update.Table), update.Filter)}

\* the loop over body.Commands; a command is a map of one action type to its
\* description, and an action type other than insert and update does nothing
RECURSIVE RunCommands(_, _, _)
RunCommands(sts, commands, paramUser) ==
    IF commands = <<>> THEN sts
    ELSE LET cmd == Head(commands) IN
         RunCommands(
            UNION {IF st.err # "" THEN {st}
                   ELSE CASE cmd.actionType = "insert" ->
                                {InsertCommand(st, cmd, paramUser)}
                          [] cmd.actionType = "update" -> UpdateCommand(st, cmd, paramUser)
                          [] OTHER -> {Stepped(st, Ok(st.db), <<>>, st.saved, st.nextId)} :
                      st \in sts},
            Tail(commands), paramUser)

\* POST of a body of commands: the outcomes the request can have
RunFunctionCommands(d, nid, body, paramUser) ==
    {Outcome(Transaction(d, [db |-> st.db, err |-> st.err]),
             IF st.err = "" THEN st.nextId ELSE nid,
             IF st.panic THEN "panic" ELSE IF st.err # "" THEN "error" ELSE "ok",
             st.err, EmptyMap, st.log) :
        st \in RunCommands({Start(d, nid)}, body.Commands, paramUser)}

(***************************************************************************)
(* HTTP handlers DatabaseAPIImpl.InsertData / FetchRows                    *)
(***************************************************************************)
\* TableService.Insert(tableName, data): INSERT INTO tableName of the one map
TableInsert(d, tableName, data) == ExecInsert(Ok(d), tableName, <<data>>)

\* the loop over form.Value: id, created_at, updated_at and empty values are
\* skipped; for the value "$user.id" the entry is first set to the user_id of
\* the request context, and then, like every other entry, set to v[0]
FormKeys(form) ==
    {k \in DOMAIN form : k \notin {"id", "created_at", "updated_at"} /\ form[k] # ""}

FilteredData(form, paramUser) ==
    [k \in FormKeys(form) |->
        LET afterIf == IF form[k] = "$user.id" THEN paramUser ELSE Nil
            afterLoopBody == Str(form[k])
        IN  afterLoopBody]

HandlerResult(c, d, nid, status, err, data) ==
    [cache |-> c, db |-> d, nextId |-> nid, status |-> status, err |-> err,
     data |-> data]

\* POST /:table_name/insert.  The identifier is generated before the form is
\* read; the outcome of Table.Insert is not looked at.
InsertData(c, d, nid, tableName, form, paramUser) ==
    LET info == Info(c, d, tableName, <<>>) IN
    IF info.err # "" THEN HandlerResult(info.cache, d, nid, 500, info.err, <<>>)
    ELSE IF info.table.auth
        THEN HandlerResult(info.cache, d, nid, 400,
                           "Insertion to user type table can only be done through auth API",
                           <<>>)
    ELSE IF paramUser.kind = "nil" /\ \E k \in FormKeys(form) : form[k] = "$user.id"
        THEN HandlerResult(info.cache, d, nid + 1, 400, "User not authorized", <<>>)
    ELSE LET filteredData ==
                 Put(FilteredData(form, paramUser), "id", Str(GenerateRandomString(nid + 1)))
             inserted == TableInsert(d, tableName, filteredData)
         IN  HandlerResult(info.cache, IF inserted.err = "" THEN inserted.db ELSE d,
                           nid + 1, 200, "", <<filteredData>>)

\* the column list built from the rows of PRAGMA table_info(tableName), of
\* which only the name is read, without password and salt
VisibleColumns(allColumn) ==
    [i \in DOMAIN SelectSeqBy(allColumn, {"password", "salt"}) |->
        SelectSeqBy(allColumn, {"password", "salt"})[i].name]

\* GET /:table_name/rows without filter, sort and page: SELECT columns FROM
\* tableName, where columns is "*" unless the descriptor says auth; an empty
\* column list is a syntax error
FetchRows(c, d, tableName) ==
    LET info == Info(c, d, tableName, <<>>) IN
    IF info.err # "" THEN HandlerResult(info.cache, d, 0, 500, info.err, <<>>)
    ELSE LET columns == IF info.table.auth
                        THEN VisibleColumns(PragmaColumns(d, tableName))
                        ELSE <<>>
             r == IF info.table.auth /\ columns = <<>>
                  THEN [err |-> "syntax error", result |-> <<>>]
                  ELSE ExecSelect(d, tableName, columns)
         IN  IF r.err # "" THEN HandlerResult(info.cache, d, 0, 400, r.err, <<>>)
             ELSE HandlerResult(info.cache, d, 0, 200, "", r.result)

(***************************************************************************)
(* Inputs                                                                  *)
(***************************************************************************)
\* model.Field values
TitleField ==
    [name |-> "title", type |-> "Text", nullable |-> FALSE, reference |-> "",
     unique |-> FALSE]

\* model.Index values
TitleIndex == [name |-> "idx_title", indexes |-> <<"title">>]

\* tables are created under these names and reach the others through Rename
CreateNames == {"t1"}

\* model.CreateTable values
CreateParams ==
    [name : CreateNames, type : {"plain", "users"},
     fields : {<<TitleField>>}, indexes : {<<>>, <<TitleIndex>>}]

\* the create requests used where the cached reads are interleaved
CachedCreateParams == {p \in CreateParams : p.indexes # <<>>}

\* fields values of the create-table request
TitleReqField ==
    [FieldType |-> "text", FieldName |-> "title", Nullable |-> FALSE,
     RelatedTable |-> "", Indexed |-> TRUE, Unique |-> FALSE]

\* createTableReq values
CreateTableReqs ==
    [TableName : CreateNames, IDType : {"manual", "serial"},
     Fields : {<<TitleReqField>>}, Type : {"plain", "users"}]

CachedCreateTableReqs == {r \in CreateTableReqs : r.IDType = "manual"}

\* the statement the storage layer rejects, if any
\* ("table" is the CREATE/ALTER/DROP TABLE statement, "catalog" the statement
\* on the catalog table)
Faults == {"none", "table", "catalog"}

NoFault == {"none"}

\* the attribute sets Describe is asked for; <<>> is the default set
InfoArgs == {<<>>, <<"name", "auth">>}

IndexNames == {"idx_title", "idx_missing"}

\* the schema the stored functions run against
NotesReq ==
    [TableName |-> "t1", IDType |-> "string", Fields |-> <<TitleReqField>>,
     Type |-> "plain"]

OwnerReqField ==
    [FieldType |-> "text", FieldName |-> "owner", Nullable |-> TRUE,
     RelatedTable |-> "", Indexed |-> FALSE, Unique |-> FALSE]

LinksReq ==
    [TableName |-> "t2", IDType |-> "string", Fields |-> <<OwnerReqField>>,
     Type |-> "plain"]

FuncDB == CreateTable(CreateTable(EmptyDB, NotesReq, "none").db, LinksReq, "none").db

\* Function values
Function(name, action, table, multiple, values, filter, columns) ==
    [Name |-> name, Action |-> action, Table |-> table, Multiple |-> multiple,
     Values |-> values, Filter |-> filter, Columns |-> columns]

Template(column, v) == [c \in {column} |-> v]

InsertA == Function("A", "insert", "t1", FALSE, Template("title", Str("")), <<>>, <<>>)

InsertB == Function("B", "insert", "t2", FALSE, Template("owner", Str("$A")), <<>>, <<>>)

InsertGhost == Function("B", "insert", "t2", FALSE, Template("owner", Str("$C")), <<>>, <<>>)

InsertNumber == Function("B", "insert", "t2", FALSE, Template("owner", Num("1")), <<>>, <<>>)

\* the payload under "B" has no title, which t1 requires
InsertUntitled ==
    Function("B", "insert", "t1", FALSE, Template("title", Str("")), <<>>, <<>>)

InsertMany == Function("M", "insert", "t1", TRUE, Template("title", Str("")), <<>>, <<>>)

UpdateA == Function("A", "update", "t1", FALSE, Template("title", Str("")), <<>>, <<>>)

DeleteA ==
    Function("A", "delete", "t1", FALSE, EmptyMap,
             <<[Column |-> "id", Operator |-> " = ?", Value |-> ""]>>, <<>>)

FetchA == Function("A", "fetch", "t1", FALSE, EmptyMap, <<>>, <<"id", "title">>)

Steps ==
    {InsertA, InsertB, InsertGhost, InsertNumber, InsertUntitled, InsertMany, UpdateA,
     DeleteA, FetchA}

\* the longest stored function
MaxSteps == 2

\* the identifiers handed out in one behaviour
MaxId == 3

\* longer pipelines: a step between the insert and the step that binds its id
LongFunctions ==
    {<<InsertA, FetchA, InsertB>>, <<InsertA, InsertA, InsertB>>,
     <<InsertA, InsertB, InsertUntitled>>}

Functions == UNION {[1..n -> Steps] : n \in 1..MaxSteps} \cup LongFunctions

StoredLookups ==
    {[found |-> FALSE, functions |-> <<>>]}
        \cup {[found |-> TRUE, functions |-> fs] : fs \in Functions}

\* Caller values with the user_id of the request context
Field(k, v) == [x \in {k} |-> v]

Requests ==
    {[Data |-> Field("A", Obj(Field("id", Str("id1")) @@ Field("title", Str("x"))))
                  @@ Field("B", Obj(EmptyMap))
                  @@ Field("M", List(<<Obj(Field("title", Str("y"))),
                                       Obj(Field("title", Str("y")))>>)),
      user |-> Str("u1")],
     [Data |-> Field("A", Str("x")), user |-> Nil]}

\* create specs that differ in their fields; the type Json is not recognized
NoteField ==
    [name |-> "note", type |-> "Text", nullable |-> TRUE, reference |-> "",
     unique |-> FALSE]

JsonField ==
    [name |-> "extra", type |-> "Json", nullable |-> TRUE, reference |-> "",
     unique |-> FALSE]

ColumnParams ==
    [name : CreateNames, type : {"plain", "users"},
     fields : {<<TitleField>>, <<TitleField, NoteField>>, <<TitleField, JsonField>>},
     indexes : {<<>>}]

ColumnReqs ==
    [TableName : CreateNames, IDType : {"string"},
     Fields : {<<TitleReqField>>, <<TitleReqField, OwnerReqField>>}, Type : {"plain"}]

\* spellings of field types: the listed names in several cases, and names that
\* are not listed
TypeNames ==
    {"text", "Text", "TEXT", "string", "String", "number", "Number", "real", "REAL",
     "boolean", "Boolean", "datetime", "DateTime", "timestamp", "Timestamp",
     "file", "File", "blob", "BLOB", "relation", "Relation", "json", "JSON",
     "integer", ""}

TypedField(t) ==
    [name |-> "value", type |-> t, nullable |-> TRUE, reference |-> "t2",
     unique |-> FALSE]

CodeField ==
    [name |-> "code", type |-> "number", nullable |-> FALSE, reference |-> "",
     unique |-> TRUE]

RefField ==
    [name |-> "owner", type |-> "relation", nullable |-> TRUE, reference |-> "t2",
     unique |-> TRUE]

MaxFields == 3

\* one field of every spelling, and the lists of two to MaxFields different
\* fields that mix unique, relation and unrecognized fields
FieldLists ==
    {<<TypedField(t)>> : t \in TypeNames}
        \cup UNION {{fl \in [1..n -> {TitleField, CodeField, RefField, JsonField}] :
                        \A i, j \in 1..n : i # j => fl[i] # fl[j]} : n \in 2..MaxFields}

DDLParams ==
    [name : CreateNames, type : {"plain", "users"}, fields : FieldLists,
     indexes : {<<>>}]

\* the request body that names the same field
ReqFieldOf(f) ==
    [FieldType |-> f.type, FieldName |-> f.name, Nullable |-> f.nullable,
     RelatedTable |-> f.reference, Indexed |-> FALSE, Unique |-> f.unique]

DDLReqs ==
    [TableName : CreateNames, IDType : {"string"},
     Fields : {[i \in DOMAIN fl |-> ReqFieldOf(fl[i])] : fl \in FieldLists},
     Type : {"plain", "users"}]

\* the steps of the pipelines that bind, update, delete and fetch
InsertUser ==
    Function("U", "insert", "t1", FALSE, Template("title", Str("$user.id")), <<>>, <<>>)

UpdateMany == Function("M", "update", "t1", TRUE, Template("title", Str("")), <<>>, <<>>)

\* two filters on the same column and operator
DeleteBoth ==
    Function("A", "delete", "t1", FALSE, EmptyMap,
             <<[Column |-> "id", Operator |-> " = ?", Value |-> ""],
               [Column |-> "id", Operator |-> " = ?", Value |-> "id2"]>>, <<>>)

FetchTitles == Function("F", "fetch", "t1", FALSE, EmptyMap, <<>>, <<"title">>)

PipeSteps ==
    {InsertA, InsertUser, InsertB, InsertMany, UpdateA, UpdateMany, DeleteA, DeleteBoth,
     FetchTitles}

PipeLookups ==
    {[found |-> TRUE, functions |-> fs] :
        fs \in UNION {[1..n -> PipeSteps] : n \in 1..MaxSteps}}

PipeRequests ==
    {[Data |-> Field("A", Obj(Field("id", Str("id1")) @@ Field("title", Str("x"))))
                  @@ Field("U", Obj(EmptyMap))
                  @@ Field("B", Obj(EmptyMap))
                  @@ Field("M", List(<<Obj(Field("id", Str("id0")) @@ Field("title", Str("y"))),
                                       Obj(Field("id", Str("id1")) @@ Field("title", Str("z")))>>)),
      user |-> Str("u1")],
     [Data |-> Field("A", Obj(Field("id", Str("id0")) @@ Field("title", Str("z"))))
                  @@ Field("U", Obj(EmptyMap))
                  @@ Field("M", List(<<Obj(Field("title", Str("y")))>>)),
      user |-> Str("u2")]}

\* the schema the commands run against: a row of t2 names its parent in
\* the column called after the parent's table
ParentReqField ==
    [FieldType |-> "text", FieldName |-> "t1", Nullable |-> TRUE,
     RelatedTable |-> "", Indexed |-> FALSE, Unique |-> FALSE]

KidsReq ==
    [TableName |-> "t2", IDType |-> "string", Fields |-> <<OwnerReqField, ParentReqField>>,
     Type |-> "plain"]

CmdDB == CreateTable(CreateTable(EmptyDB, NotesReq, "none").db, KidsReq, "none").db

\* Insert and Update values, as mapToStruct fills them from a command
Insert(table, data, childrenTable, childrenData) ==
    [actionType |-> "insert", Table |-> table, Data |-> data,
     Children |-> [Table |-> childrenTable, Data |-> childrenData]]

Update(table, data, filter) ==
    [actionType |-> "update", Table |-> table, Data |-> data, Filter |-> filter]

InsertCommands ==
    {Insert("t2", Field("owner", Str("a")) @@ Field("t1", Str("p")), "", <<>>),
     Insert("t2", Field("owner", Str("b")) @@ Field("t1", Str("p")), "", <<>>),
     Insert("t2", Field("owner", Str("a")), "", <<>>),
     Insert("t2", Field("owner", Str("b")), "", <<>>),
     Insert("t1", Field("title", Str("$user")), "t2", <<Field("owner", Str("a"))>>),
     Insert("t1", Field("title", Str("$user")), "t2",
            <<Field("owner", Str("a")), Field("owner", Str("b"))>>)}

\* condition trees
Leaf(key, value) == Obj(Field(key, value))

FilterTrees ==
    {EmptyMap,
     Field("owner", Str("a")) @@ Field("t1", Str("p")),
     Field("and", List(<<Leaf("owner", Str("a")), Leaf("t1", Str("p"))>>)),
     Field("and", List(<<Leaf("owner", Str("a")), Leaf("t1>", Str("a"))>>)),
     Field("and", List(<<Leaf("t1", Str("p")),
                         Obj(Field("or", List(<<Leaf("owner", Str("a")),
                                                Leaf("owner", Str("b"))>>)))>>)),
     Field("or", List(<<Leaf("owner", Str("a")), Leaf("t1", Str("p"))>>)),
     Field("or", List(<<Leaf("owner", Str("a")),
                        Obj(Field("and", List(<<Leaf("owner", Str("b")),
                                                Leaf("t1", Str("p"))>>)))>>))}

UpdateCommands == {Update("t2", Field("owner", Str("z")), filter) : filter \in FilterTrees}

\* request bodies with the user_id of the request context
CommandBodies ==
    [Commands : {<<cmd>> : cmd \in InsertCommands \cup UpdateCommands},
     user : {Str("u1"), Nil}]

\* multipart forms of the insert request, and the requests of a stored
\* function that binds the caller's identity, with and without a caller
IdentityForms ==
    {Field("title", "$user.id"), Field("title", "x"),
     Field("id", "$user.id") @@ Field("title", "x")}

Callers == {Str("u1"), Nil}

IdentityRequests == [Data : {Field("U", Obj(EmptyMap))}, user : Callers]

\* a stored function that inserts an account, and its request
InsertAccount ==
    Function("ACC", "insert", "t1", FALSE,
             Template("email", Str("")) @@ Template("password", Str(""))
                @@ Template("salt", Str("")) @@ Template("title", Str("")),
             <<>>, <<>>)

AccountRequests ==
    {[Data |-> Field("ACC", Obj(Field("email", Str("a")) @@ Field("password", Str("p"))
                                  @@ Field("salt", Str("z")) @@ Field("title", Str("x")))),
      user |-> Str("u1")]}

\* steps and commands whose action is none of those the interpreters know,
\* alone, before and after an insert
Upsert == Function("N", "upsert", "t1", FALSE, Template("title", Str("")), <<>>, <<>>)

UnknownLookups ==
    {[found |-> TRUE, functions |-> fs] :
        fs \in UNION {[1..n -> {Upsert, InsertA, InsertGhost}] : n \in 1..MaxSteps}}

UpsertCommand ==
    [actionType |-> "upsert", Table |-> "t2", Data |-> Field("owner", Str("a")),
     Filter |-> EmptyMap]

UnknownBodies ==
    [Commands : UNION {[1..n -> {UpsertCommand,
                                 Insert("t2", Field("owner", Str("a")), "", <<>>),
                                 Insert("t3", Field("owner", Str("a")), "", <<>>)}] :
                          n \in 1..MaxSteps},
     user : {Str("u1")}]

(***************************************************************************)
(* The table manager's mutating operations as the specification describes  *)
(* them: the service method runs inside one transaction, and the cache     *)
(* entries of the table are invalidated before the operation returns.      *)
(***************************************************************************)
TableCacheKeys(tableName) ==
    {InfoCacheKey(IF Len(a) = 0 THEN TABLE_INFO_DEFAULT ELSE a, tableName) : a \in InfoArgs}
        \cup {ColumnsCacheKey(tableName)}

Invalidate(c, names) ==
    Restrict(c, DOMAIN c \ UNION {TableCacheKeys(n) : n \in names})

Unit(pre, s, c, names) ==
    [db |-> Transaction(pre, s), err |-> s.err, cache |-> Invalidate(c, names)]

ManagerCreate(d, c, params, fault) ==
    Unit(d, Create(Ok(d), params, fault), c, {params.name})

ManagerRename(d, c, old, new, fault) ==
    Unit(d, Rename(Ok(d), old, new, fault), c, {old, new})

ManagerDrop(d, c, tableName, fault) ==
    Unit(d, Drop(Ok(d), tableName, fault), c, {tableName})

ManagerDropIndexes(d, c, idxs, fault) ==
    Unit(d, DropIndexes(Ok(d), idxs, fault), c,
         {d.indexes[i].tbl : i \in SeqRange(idxs) \cap DOMAIN d.indexes})

(***************************************************************************)
(* Batch: the cron scheduler of the backup job.  A cron.Cron is a record    *)
(* [running, entries]; Start does nothing on a scheduler that is running,  *)
(* Stop nothing on one that is not.  b is [cron, crons, goroutines,        *)
(* restart, restarts]: cron is the index in crons of the scheduler held in *)
(* Batch.cron; a goroutine of startCron is at "load" before it has read    *)
(* b.cron, at "start" when it holds the pointer and has not called Start,  *)
(* and at "select" once it blocks; restart is the position of the call of  *)
(* restartCron the configuration watcher has in progress.                  *)
(***************************************************************************)
\* config changes the watcher reports
MaxRestarts == 2

\* cron.New()
NewCron == [running |-> FALSE, entries |-> 0]

\* (*Cron).AddFunc
AddFunc(c) == [c EXCEPT !.entries = @ + 1]

\* (*Cron).Start
CronStart(c) == [c EXCEPT !.running = TRUE]

\* (*Cron).Stop
CronStop(c) == [c EXCEPT !.running = FALSE]

\* Batch.startCron: the job is added to the scheduler held in b.cron and the
\* goroutine is spawned
startCron(b) ==
    [b EXCEPT !.crons[b.cron] = AddFunc(@),
              !.goroutines = Append(@, [pc |-> "load", cron |-> 0])]

\* RunBatch, up to its return
RunBatch ==
    startCron([cron |-> 1, crons |-> <<NewCron>>, goroutines |-> <<>>,
               restart |-> "idle", restarts |-> 0])

(***************************************************************************)
(* State                                                                   *)
(***************************************************************************)
DB == [live |-> live, indexes |-> indexes, triggers |-> triggers,
       catalog |-> catalog, rows |-> rows]

SetDB(d) ==
    /\ live' = d.live
    /\ indexes' = d.indexes
    /\ triggers' = d.triggers
    /\ catalog' = d.catalog
    /\ rows' = d.rows

\* everything but the batch
Program ==
    <<live, indexes, triggers, catalog, rows, cache, nextId, last, run,
      allowGlobalUpdate, pending>>

Response(op, tbl, err) ==
    [op |-> op, tbl |-> tbl, to |-> "", err |-> err]

NoRun ==
    [steps |-> <<>>, data |-> EmptyMap, user |-> "", status |-> "", err |-> "",
     saved |-> EmptyMap, log |-> <<>>, pre |-> EmptyMap]

\* the zero value of createTableReq
NoReq == [TableName |-> "", IDType |-> "", Fields |-> <<>>, Type |-> ""]

\* snapshot is the committed state the pragma query of Columns read
Pending(op, req, pc, triggerHolder, result, fetchAuthColumn, snapshot) ==
    [op |-> op, req |-> req, pc |-> pc, triggerHolder |-> triggerHolder,
     result |-> result, fetchAuthColumn |-> fetchAuthColumn, snapshot |-> snapshot]

NoPending == Pending("none", NoReq, 0, 0, <<>>, FALSE, EmptyDB)

Init ==
    /\ live = EmptyMap
    /\ indexes = EmptyMap
    /\ triggers = EmptyMap
    /\ catalog = EmptyMap
    /\ rows = EmptyMap
    /\ cache = EmptyMap
    /\ nextId = 0
    /\ last = Response("init", "", "")
    /\ run = NoRun
    /\ allowGlobalUpdate = FALSE
    /\ pending = NoPending
    /\ batch = RunBatch

(***************************************************************************)
(* Actions: one per operation                                              *)
(***************************************************************************)
\* POST /table/create
ApiCreateTable(Reqs, Fs) ==
    \E req \in Reqs, fault \in Fs :
        \E r \in {CreateTable(DB, req, fault)} :
        /\ SetDB(r.db)
        /\ last' = Response("CreateTable", req.TableName, r.err)
        /\ UNCHANGED <<cache, nextId, run, allowGlobalUpdate, pending, batch>>

\* DELETE /table/:table_name
ApiDeleteTable(Names, Fs) ==
    \E tableName \in Names, fault \in Fs :
        \E r \in {DeleteTable(DB, tableName, fault)} :
        /\ SetDB(r.db)
        /\ last' = Response("DeleteTable", tableName, r.err)
        /\ UNCHANGED <<cache, nextId, run, allowGlobalUpdate, pending, batch>>

MgrCreate(Params, Fs) ==
    \E params \in Params, fault \in Fs :
        \E r \in {ManagerCreate(DB, cache, params, fault)} :
        /\ SetDB(r.db)
        /\ cache' = r.cache
        /\ last' = Response("Create", params.name, r.err)
        /\ UNCHANGED <<nextId, run, allowGlobalUpdate, pending, batch>>

MgrRename(Names, Fs) ==
    \E old \in Names, new \in Names, fault \in Fs :
        \E r \in {ManagerRename(DB, cache, old, new, fault)} :
        /\ SetDB(r.db)
        /\ cache' = r.cache
        /\ last' = [Response("Rename", old, r.err) EXCEPT !.to = new]
        /\ UNCHANGED <<nextId, run, allowGlobalUpdate, pending, batch>>

MgrDrop(Names, Fs) ==
    \E tableName \in Names, fault \in Fs :
        \E r \in {ManagerDrop(DB, cache, tableName, fault)} :
        /\ SetDB(r.db)
        /\ cache' = r.cache
        /\ last' = Response("Drop", tableName, r.err)
        /\ UNCHANGED <<nextId, run, allowGlobalUpdate, pending, batch>>

MgrDropIndexes(Fs) ==
    \E iname \in IndexNames, fault \in Fs :
        \E r \in {ManagerDropIndexes(DB, cache, <<iname>>, fault)} :
        /\ SetDB(r.db)
        /\ cache' = r.cache
        /\ last' = Response("DropIndexes", iname, r.err)
        /\ UNCHANGED <<nextId, run, allowGlobalUpdate, pending, batch>>

\* TableService.Info
DescribeTable ==
    \E tableName \in TableNames, infoArg \in InfoArgs :
        \E r \in {Info(cache, DB, tableName, infoArg)} :
        /\ cache' = r.cache
        /\ UNCHANGED <<live, indexes, triggers, catalog, rows, nextId, last, run,
                       allowGlobalUpdate, pending, batch>>

\* GET /columns/:table_name?fetch_auth_column=
ListColumns ==
    \E tableName \in TableNames, fetchAuthColumn \in BOOLEAN, privileged \in BOOLEAN :
        \E r \in {FetchTableColumns(cache, DB, tableName, fetchAuthColumn, privileged)} :
        /\ cache' = r.cache
        /\ UNCHANGED <<live, indexes, triggers, catalog, rows, nextId, last, run,
                       allowGlobalUpdate, pending, batch>>

\* a cache entry reaches its expiration time
Expire ==
    \E k \in DOMAIN cache :
        /\ cache' = Del(cache, k)
        /\ UNCHANGED <<live, indexes, triggers, catalog, rows, nextId, last, run,
                       allowGlobalUpdate, pending, batch>>

\* POST /function/run/:func_name.  run is the response on its way to the
\* client, which sends its next request once it has received it.
ApiRunFunction(Lookups, Reqs) ==
    /\ run = NoRun
    /\ \E stored \in Lookups, request \in Reqs :
        \E r \in {RunFunction(DB, nextId, stored, request, request.user)} :
        /\ r.nextId <= MaxId
        /\ SetDB(r.db)
        /\ nextId' = r.nextId
        /\ run' = [steps |-> stored.functions, data |-> request.Data,
                   user |-> request.user.str, status |-> r.status, err |-> r.err,
                   saved |-> r.saved, log |-> r.log, pre |-> rows]
        /\ last' = Response("RunFunction", "", r.err)
        /\ UNCHANGED <<cache, allowGlobalUpdate, pending, batch>>

\* the client receives the response
ReceiveResponse ==
    /\ run # NoRun
    /\ run' = NoRun
    /\ UNCHANGED <<live, indexes, triggers, catalog, rows, cache, nextId, last,
                   allowGlobalUpdate, pending, batch>>

\* POST of a body of commands (api_function)
ApiRunCommandsOf(Bodies) ==
    /\ run = NoRun
    /\ \E body \in Bodies :
        \E r \in RunFunctionCommands(DB, nextId, body, body.user) :
        /\ r.nextId <= MaxId
        /\ SetDB(r.db)
        /\ nextId' = r.nextId
        /\ run' = [steps |-> body.Commands, data |-> EmptyMap, user |-> body.user.str,
                   status |-> r.status, err |-> r.err, saved |-> r.saved,
                   log |-> r.log, pre |-> rows]
        /\ last' = Response("RunFunction", "", r.err)
        /\ UNCHANGED <<cache, allowGlobalUpdate, pending, batch>>

\* POST /:table_name/insert
ApiInsertData(Names, Forms) ==
    /\ run = NoRun
    /\ \E tableName \in Names, form \in Forms, paramUser \in Callers :
        \E r \in {InsertData(cache, DB, nextId, tableName, form, paramUser)} :
        /\ r.nextId <= MaxId
        /\ SetDB(r.db)
        /\ cache' = r.cache
        /\ nextId' = r.nextId
        /\ run' = [steps |-> <<[actionType |-> "InsertData", Table |-> tableName,
                                Form |-> form]>>,
                   data |-> EmptyMap, user |-> paramUser.str,
                   status |-> IF r.status = 200 THEN "ok" ELSE "error", err |-> r.err,
                   saved |-> EmptyMap,
                   log |-> IF r.data = <<>> THEN <<>>
                           ELSE <<[inputs |-> r.data, saved |-> EmptyMap,
                                   rows |-> r.db.rows]>>,
                   pre |-> rows]
        /\ last' = Response("InsertData", tableName, r.err)
        /\ UNCHANGED <<allowGlobalUpdate, pending, batch>>

\* GET /:table_name/rows
ApiFetchRows(Names) ==
    /\ run = NoRun
    /\ \E tableName \in Names :
        \E r \in {FetchRows(cache, DB, tableName)} :
        /\ cache' = r.cache
        /\ run' = [steps |-> <<[actionType |-> "FetchRows", Table |-> tableName]>>,
                   data |-> EmptyMap, user |-> "",
                   status |-> IF r.status = 200 THEN "ok" ELSE "error", err |-> r.err,
                   saved |-> Field("data", Rows(r.data)), log |-> <<>>, pre |-> rows]
    /\ UNCHANGED <<live, indexes, triggers, catalog, rows, nextId, last,
                   allowGlobalUpdate, pending, batch>>

\* model.Migrate(db), run at start-up; it is not wrapped in a transaction
DoMigrate(Fs) ==
    \E fault \in Fs :
        \E r \in {Migrate(Ok(DB), fault)} :
        /\ SetDB(r.db)
        /\ last' = Response("Migrate", "", r.err)
        /\ UNCHANGED <<cache, nextId, run, allowGlobalUpdate, pending, batch>>

ApiRunCommands == ApiRunCommandsOf(CommandBodies)

\* the goroutine of startCron evaluates b.cron
GoLoad ==
    /\ \E g \in DOMAIN batch.goroutines :
        /\ batch.goroutines[g].pc = "load"
        /\ batch' = [batch EXCEPT !.goroutines[g] = [pc |-> "start", cron |-> batch.cron]]
    /\ UNCHANGED Program

\* the goroutine calls Start on the scheduler it has read, then blocks in select {}
GoStart ==
    /\ \E g \in DOMAIN batch.goroutines :
        /\ batch.goroutines[g].pc = "start"
        /\ batch' = [batch EXCEPT !.crons[batch.goroutines[g].cron] = CronStart(@),
                                  !.goroutines[g].pc = "select"]
    /\ UNCHANGED Program

\* restartCron, called by the configuration watcher: b.cron.Stop()
RestartStop ==
    /\ batch.restart = "idle"
    /\ batch.restarts < MaxRestarts
    /\ batch' = [batch EXCEPT !.crons[batch.cron] = CronStop(@), !.restart = "new"]
    /\ UNCHANGED Program

\* restartCron: b.cron = cron.New()
RestartNew ==
    /\ batch.restart = "new"
    /\ batch' = [batch EXCEPT !.crons = Append(@, NewCron),
                              !.cron = Len(batch.crons) + 1,
                              !.restart = "startCron"]
    /\ UNCHANGED Program

\* restartCron: b.startCron()
RestartStartCron ==
    /\ batch.restart = "startCron"
    /\ batch' = [startCron(batch) EXCEPT !.restart = "idle", !.restarts = @ + 1]
    /\ UNCHANGED Program

\* POST /table/create served statement by statement: the request is bound and
\* the closure is entered
BeginCreateTable(Reqs) ==
    /\ pending.op = "none"
    /\ \E req \in Reqs :
        /\ req.IDType \in {"string", "manual"}
        /\ pending' = Pending("CreateTable", req, 1, 0, <<>>, FALSE, EmptyDB)
    /\ UNCHANGED <<live, indexes, triggers, catalog, rows, cache, nextId, last, run,
                   allowGlobalUpdate, batch>>

\* the next statement of the closure; the handler answers after the first
\* error or after the last statement
StepCreateTable ==
    /\ pending.op = "CreateTable"
    /\ \E r \in {CreateTableStatement(DB, pending.req, pending.pc, pending.triggerHolder)} :
        /\ SetDB(r.db)
        /\ IF r.err # "" \/ r.pc > CreateTableLength(pending.req)
           THEN /\ pending' = NoPending
                /\ last' = Response("CreateTable", pending.req.TableName, r.err)
           ELSE /\ pending' = [pending EXCEPT !.pc = r.pc, !.triggerHolder = r.triggerHolder]
                /\ last' = last
    /\ UNCHANGED <<cache, nextId, run, allowGlobalUpdate, batch>>

\* DELETE /table/:table_name served statement by statement
BeginDeleteTable(Names) ==
    /\ pending.op = "none"
    /\ \E tableName \in Names :
        pending' = Pending("DeleteTable", [NoReq EXCEPT !.TableName = tableName], 1, 0,
                           <<>>, FALSE, EmptyDB)
    /\ UNCHANGED <<live, indexes, triggers, catalog, rows, cache, nextId, last, run,
                   allowGlobalUpdate, batch>>

StepDeleteTable ==
    /\ pending.op = "DeleteTable"
    /\ \E r \in {DeleteTableStatement(DB, pending.req.TableName, pending.pc)} :
        /\ SetDB(r.db)
        /\ IF r.err # "" \/ r.pc > 2
           THEN /\ pending' = NoPending
                /\ last' = Response("DeleteTable", pending.req.TableName, r.err)
           ELSE /\ pending' = [pending EXCEPT !.pc = r.pc]
                /\ last' = last
    /\ UNCHANGED <<cache, nextId, run, allowGlobalUpdate, batch>>

\* TableService.Columns on a cache miss, up to the rows of the pragma query
BeginColumns ==
    /\ pending.op = "none"
    /\ \E tableName \in TableNames, fetchAuthColumn \in BOOLEAN :
        /\ ColumnsCacheKey(tableName) \notin DOMAIN cache
        /\ pending' = Pending("Columns", [NoReq EXCEPT !.TableName = tableName], 1, 0,
                              PragmaColumns(DB, tableName), fetchAuthColumn, DB)
    /\ UNCHANGED <<live, indexes, triggers, catalog, rows, cache, nextId, last, run,
                   allowGlobalUpdate, batch>>

\* TableService.Columns from the call of Info to its return
FinishColumns ==
    /\ pending.op = "Columns"
    /\ \E r \in {ColumnsAfterPragma(cache, DB, ColumnsCacheKey(pending.req.TableName),
                                     pending.req.TableName, pending.fetchAuthColumn,
                                     pending.result)} :
        cache' = r.cache
    /\ pending' = NoPending
    /\ UNCHANGED <<live, indexes, triggers, catalog, rows, nextId, last, run,
                   allowGlobalUpdate, batch>>

(***************************************************************************)
(* Specifications                                                          *)
(***************************************************************************)
\* schema mutations, with the storage layer free to reject any statement
NextSchema ==
    \/ ApiCreateTable(CreateTableReqs, Faults)
    \/ ApiDeleteTable(TableNames, Faults)
    \/ MgrCreate(CreateParams, Faults)
    \/ MgrRename(TableNames, Faults)
    \/ MgrDrop(TableNames, Faults)
    \/ MgrDropIndexes(Faults)

SpecSchema == Init /\ [][NextSchema]_vars

\* schema mutations interleaved with the cached reads
NextCache ==
    \/ ApiCreateTable(CachedCreateTableReqs, NoFault)
    \/ ApiDeleteTable(TableNames, NoFault)
    \/ MgrCreate(CachedCreateParams, NoFault)
    \/ MgrRename(TableNames, NoFault)
    \/ MgrDrop(TableNames, NoFault)
    \/ MgrDropIndexes(NoFault)
    \/ DescribeTable
    \/ ListColumns
    \/ Expire

SpecCache == Init /\ [][NextCache]_vars

\* stored functions run against a schema of two tables
InitFunc ==
    /\ live = FuncDB.live
    /\ indexes = FuncDB.indexes
    /\ triggers = FuncDB.triggers
    /\ catalog = FuncDB.catalog
    /\ rows = FuncDB.rows
    /\ cache = EmptyMap
    /\ nextId = 0
    /\ last = Response("init", "", "")
    /\ run = NoRun
    /\ allowGlobalUpdate = FALSE
    /\ pending = NoPending
    /\ batch = RunBatch

NextFunc == ApiRunFunction(StoredLookups, Requests) \/ ReceiveResponse

SpecFunc == InitFunc /\ [][NextFunc]_vars

\* stored functions that bind the caller's identity, update, delete and fetch
NextPipe == ApiRunFunction(PipeLookups, PipeRequests) \/ ReceiveResponse

SpecPipe == InitFunc /\ [][NextPipe]_vars

\* a plain table with one required text column is created, by the service or
\* by the handler, then the stored function that inserts the caller's identity
\* is run and the table is described
NextTasks ==
    \/ MgrCreate({p \in CreateParams : p.type = "plain" /\ p.indexes = <<>>}, NoFault)
    \/ ApiCreateTable({NotesReq}, NoFault)
    \/ ApiRunFunction({[found |-> TRUE, functions |-> <<InsertUser>>]}, PipeRequests)
    \/ ReceiveResponse
    \/ DescribeTable

SpecTasks == Init /\ [][NextTasks]_vars

\* tables of different fields are created, renamed and dropped, by the
\* service and by the handlers, and their columns are listed
NextColumns ==
    \/ ApiCreateTable(ColumnReqs, NoFault)
    \/ ApiDeleteTable(TableNames, NoFault)
    \/ MgrCreate(ColumnParams, NoFault)
    \/ MgrRename(TableNames, NoFault)
    \/ MgrDrop(TableNames, NoFault)
    \/ ListColumns

SpecColumns == Init /\ [][NextColumns]_vars

\* bodies of commands and stored functions with a multiple insert, run on a
\* parent and a child table, under either setting of AllowGlobalUpdate
InitCmd ==
    /\ live = CmdDB.live
    /\ indexes = CmdDB.indexes
    /\ triggers = CmdDB.triggers
    /\ catalog = CmdDB.catalog
    /\ rows = CmdDB.rows
    /\ cache = EmptyMap
    /\ nextId = 0
    /\ last = Response("init", "", "")
    /\ run = NoRun
    /\ allowGlobalUpdate \in BOOLEAN
    /\ pending = NoPending
    /\ batch = RunBatch

NextCmd ==
    \/ ApiRunCommands
    \/ ApiRunFunction({[found |-> TRUE, functions |-> <<InsertMany>>]}, PipeRequests)
    \/ ReceiveResponse

SpecCmd == InitCmd /\ [][NextCmd]_vars

\* tables of every field list are created and dropped, by the service and by
\* the handlers
NextDDL ==
    \/ MgrCreate(DDLParams, NoFault)
    \/ ApiCreateTable(DDLReqs, NoFault)
    \/ MgrDrop(CreateNames, NoFault)
    \/ ApiDeleteTable(CreateNames, NoFault)

SpecDDL == Init /\ [][NextDDL]_vars

\* requests served concurrently: the two handlers run statement by statement
\* and Columns runs query by query, while the operations that run inside one
\* transaction take effect at once
NextConcurrent ==
    \/ BeginCreateTable(CachedCreateTableReqs)
    \/ StepCreateTable
    \/ BeginDeleteTable(TableNames)
    \/ StepDeleteTable
    \/ BeginColumns
    \/ FinishColumns
    \/ MgrCreate(CachedCreateParams, NoFault)
    \/ MgrDrop(TableNames, NoFault)
    \/ ListColumns
    \/ ApiRunFunction({[found |-> TRUE, functions |-> <<InsertA>>]}, Requests)
    \/ ReceiveResponse

SpecConcurrent == Init /\ [][NextConcurrent]_vars

\* the table service alone: Create, Rename, Drop and DropIndexes, each in one
\* transaction, with the storage layer free to reject a statement
NextService ==
    \/ MgrCreate(CreateParams, Faults)
    \/ MgrRename(TableNames, Faults)
    \/ MgrDrop(TableNames, Faults)
    \/ MgrDropIndexes(Faults)

SpecService == Init /\ [][NextService]_vars

\* a table is created, by the service or by the handler, described and
\* dropped, and rows are inserted into it with the caller's identity, by the
\* insert request and by a stored function, with and without a caller
NextIdentity ==
    \/ MgrCreate({p \in CreateParams : p.indexes = <<>>}, NoFault)
    \/ ApiCreateTable({NotesReq}, NoFault)
    \/ ApiDeleteTable(CreateNames, NoFault)
    \/ DescribeTable
    \/ ApiInsertData(CreateNames, IdentityForms)
    \/ ApiRunFunction({[found |-> TRUE, functions |-> <<InsertUser>>]}, IdentityRequests)
    \/ ReceiveResponse

SpecIdentity == Init /\ [][NextIdentity]_vars

\* tables are created and dropped, by the service and by the handlers, plain
\* or with accounts, described, filled by a stored function and read
NextRows ==
    \/ MgrCreate({p \in CreateParams : p.indexes = <<>>}, NoFault)
    \/ MgrDrop(CreateNames, NoFault)
    \/ ApiCreateTable(CachedCreateTableReqs, NoFault)
    \/ ApiDeleteTable(CreateNames, NoFault)
    \/ ApiFetchRows(CreateNames)
    \/ ApiRunFunction({[found |-> TRUE, functions |-> <<InsertAccount>>]}, AccountRequests)
    \/ ReceiveResponse

SpecRows == Init /\ [][NextRows]_vars

\* the database is migrated, any number of times, and user tables are
\* created, renamed, dropped and described through the table service
NextMigrate ==
    \/ DoMigrate(NoFault)
    \/ MgrCreate(CreateParams, NoFault)
    \/ MgrRename(TableNames, NoFault)
    \/ MgrDrop(TableNames, NoFault)
    \/ DescribeTable

SpecMigrate == Init /\ [][NextMigrate]_vars

\* stored functions and bodies of commands with an action that neither
\* interpreter knows
NextUnknown ==
    \/ ApiRunFunction(UnknownLookups, Requests)
    \/ ApiRunCommandsOf(UnknownBodies)
    \/ ReceiveResponse

SpecUnknown == InitCmd /\ [][NextUnknown]_vars

\* the goroutines of startCron run while the configuration watcher calls
\* restartCron
NextBatch ==
    \/ GoLoad
    \/ GoStart
    \/ RestartStop
    \/ RestartNew
    \/ RestartStartCron

SpecBatch == Init /\ [][NextBatch]_vars

(***************************************************************************)
(* Properties of the schema manager                                        *)
(***************************************************************************)
Storage == <<live, indexes, triggers, catalog, rows>>

ResultNames(result) == {result[i].name : i \in DOMAIN result}

\* C1: a create request either leaves the live table and its catalog row both
\* in place, or, when it returns an error, leaves the storage exactly as it
\* was before the request.
C1_CreateIsAtomic ==
    [][last'.op \in {"CreateTable", "Create"} =>
         IF last'.err = ""
         THEN last'.tbl \in DOMAIN live' /\ last'.tbl \in DOMAIN catalog'
         ELSE UNCHANGED Storage]_vars

\* C2: a rename or drop either removes the old name from the live schema and
\* from the catalog, or, when it returns an error, leaves the storage exactly
\* as it was before the request.
C2_RenameDropIsAtomic ==
    [][last'.op \in {"Rename", "Drop", "DeleteTable"} =>
         IF last'.err = ""
         THEN last'.tbl \notin DOMAIN live' /\ last'.tbl \notin DOMAIN catalog'
         ELSE UNCHANGED Storage]_vars

\* the descriptor Info computes from the catalog as it is now
FreshInfo(tableName, infoArg) == Info(EmptyMap, DB, tableName, infoArg)

MutationOps == {"CreateTable", "Create", "Rename", "Drop", "DeleteTable", "DropIndexes"}

\* C3: once a mutation of table T has returned successfully, Describe(T, fields)
\* answers what the catalog holds now: the same error or the same descriptor
\* as a read that bypasses the cache.
C3_DescribeIsFresh ==
    (last.op \in MutationOps /\ last.err = "") =>
        \A t \in {last.tbl, last.to} \cap TableNames, a \in InfoArgs :
            LET r == Info(cache, DB, t, a) IN
            /\ r.err = FreshInfo(t, a).err
            /\ r.table = FreshInfo(t, a).table

\* C4: once a drop of a table has returned successfully, Describe of that name
\* fails, for every attribute set.
C4_DescribeFailsAfterDrop ==
    (last.op \in {"Drop", "DeleteTable"} /\ last.err = "") =>
        \A a \in InfoArgs : Info(cache, DB, last.tbl, a).err # ""

\* C5: for a table the catalog marks as auth, ListColumns without the auth
\* columns returns neither password nor salt, and with them does not return salt.
C5_AuthColumnsRedacted ==
    \A t \in DOMAIN catalog :
        catalog[t].auth =>
            /\ ResultNames(Columns(cache, DB, t, FALSE).result)
                   \cap {"password", "salt"} = {}
            /\ "salt" \notin ResultNames(Columns(cache, DB, t, TRUE).result)

\* C6: the column list handed to a caller contains the password column of an
\* auth table only if the caller is privileged.
C6_PasswordNeedsPrivilege ==
    \A t \in DOMAIN catalog, privileged \in BOOLEAN :
        (catalog[t].auth
            /\ "password" \in
                 ResultNames(FetchTableColumns(cache, DB, t, TRUE, privileged).result))
        => privileged

(***************************************************************************)
(* Properties of the function interpreter                                  *)
(***************************************************************************)
\* C7: an invocation of RunFunction that fails leaves every table's rows as
\* they were before it, whatever its earlier steps wrote; an invocation that
\* succeeds leaves the rows as its last step left them.
C7_RunFunctionAllOrNothing ==
    [][(run = NoRun /\ run' # NoRun) =>
         IF run'.status = "ok"
         THEN rows' = run'.log[Len(run'.log)].rows
         ELSE UNCHANGED Storage]_vars

\* the second of two inserts failed after the first had written its row
C7_Witness ==
    /\ run.status = "error"
    /\ Len(run.steps) = 2
    /\ run.steps[1].Action = "insert" /\ run.steps[2].Action = "insert"
    /\ Len(run.log) = 1
    /\ run.log[1].rows # run.pre
    /\ rows = run.pre

\* savedData as step j finds it
SavedBefore(j) == IF j = 1 THEN EmptyMap ELSE run.log[j - 1].saved

\* the rows as step j finds them
RowsBefore(j) == IF j = 1 THEN run.pre ELSE run.log[j - 1].rows

\* step j of the last invocation was started
Reached(j) == j \in DOMAIN run.steps /\ j <= Len(run.log) + 1

UnresolvedToken(j) ==
    /\ Reached(j)
    /\ run.steps[j].Action \in {"insert", "update"}
    /\ \E c \in DOMAIN run.steps[j].Values :
          LET v == run.steps[j].Values[c] IN
          /\ v.kind = "string"
          /\ HasDollarPrefix(v.str)
          /\ v.str # "$user.id"
          /\ StripDollar(v.str) \notin DOMAIN SavedBefore(j)

\* C8: an invocation with a step whose template names $name while no earlier
\* step has recorded a value under name does not succeed.
C8_UnresolvedTokenFails ==
    (\E j \in DOMAIN run.steps : UnresolvedToken(j)) => run.status # "ok"

\* the shape of caller payload a step reads, "" if it reads none
ExpectedKind(f) ==
    CASE f.Action \in {"insert", "update"} /\ f.Multiple -> "list"
      [] f.Action \in {"insert", "update"} /\ ~f.Multiple -> "object"
      [] f.Action = "delete" -> "object"
      [] OTHER -> ""

Malformed(j) ==
    /\ Reached(j)
    /\ \/ ExpectedKind(run.steps[j])
              \notin {"", Lookup(run.data, run.steps[j].Name).kind}
       \/ /\ run.steps[j].Action \in {"insert", "update"}
          /\ \E c \in DOMAIN run.steps[j].Values :
                run.steps[j].Values[c].kind # "string"

\* C9: an invocation that reaches a step whose payload is missing or of the
\* wrong shape, or whose template holds a value that is not a string, ends
\* with an error response; it does not panic.
C9_MalformedInputIsAnError ==
    (\E j \in DOMAIN run.steps : Malformed(j)) => run.status = "error"

Records(f, name) ==
    f.Name = name /\ (f.Action = "fetch" \/ (f.Action = "insert" /\ ~f.Multiple))

Binds(f, c, name) ==
    /\ f.Action \in {"insert", "update"}
    /\ c \in DOMAIN f.Values
    /\ f.Values[c] = Str("$" \o name)

\* step i is a singular insert whose recorded id is what step j finds under its name
Feeds(i, j) ==
    /\ i < j
    /\ Records(run.steps[i], run.steps[i].Name)
    /\ run.steps[i].Action = "insert"
    /\ run.steps[i].Name # "user.id"
    /\ ~\E m \in (i + 1)..(j - 1) : Records(run.steps[m], run.steps[i].Name)

\* C10: in a successful invocation where a singular insert step A precedes a
\* step B that binds a column to $A, every row B writes carries in that column
\* the id generated at step A; that id was not in A's table before, is the id
\* of a row A stored, and is what savedData holds under A's name.
C10_BoundColumnIsInsertedId ==
    run.status = "ok" =>
        \A i, j \in DOMAIN run.steps : \A c \in DOMAIN run.steps[j].Values :
            (Feeds(i, j) /\ Binds(run.steps[j], c, run.steps[i].Name)) =>
                LET id == run.log[i].inputs[1]["id"]
                    tbl == run.steps[i].Table
                IN  /\ \A k \in DOMAIN run.log[j].inputs : run.log[j].inputs[k][c] = id
                    /\ SavedBefore(j)[run.steps[i].Name] = id
                    /\ \E n \in DOMAIN run.log[i].rows[tbl] :
                          run.log[i].rows[tbl][n]["id"] = id
                    /\ \A n \in DOMAIN RowsBefore(i)[tbl] : RowsBefore(i)[tbl][n]["id"] # id

\* an insert into t1 followed by an insert into t2 that bound $A: the stored
\* owner is the id of a stored t1 row
C10_Witness ==
    /\ run.status = "ok"
    /\ Len(run.steps) = 2
    /\ Feeds(1, 2)
    /\ Binds(run.steps[2], "owner", run.steps[1].Name)
    /\ \E n \in DOMAIN rows["t2"], m \in DOMAIN rows["t1"] :
          rows["t2"][n]["owner"] = rows["t1"][m]["id"]

(***************************************************************************)
(* Properties of binding, of the steps and of the response                 *)
(***************************************************************************)
StepNames == {"A", "B", "C", "U", "M", "F"}

\* what the template value v under column k stands for
Resolved(v, k, input, saved, user) ==
    IF v = "$user.id" THEN Str(user)
    ELSE IF \E n \in StepNames : v = "$" \o n
        THEN Lookup(saved, CHOOSE n \in StepNames : v = "$" \o n)
    ELSE Lookup(input, k)

\* the caller's records step j binds: one for a singular step, the elements
\* of the list for a multiple one
PayloadsOf(j) ==
    LET p == Lookup(run.data, run.steps[j].Name) IN
    IF run.steps[j].Multiple THEN [i \in DOMAIN p.items |-> p.items[i].obj]
    ELSE <<p.obj>>

\* C11: every record an insert or update step has bound has exactly the keys
\* of the step's template (an insert adds the generated id afterwards), and
\* under each key the caller's identity for "$user.id", the environment's
\* entry under name for any other "$name", and the caller's value under the
\* same key for a template value without the "$" prefix.
C11_BindingResolution ==
    \A j \in DOMAIN run.log :
        run.steps[j].Action \in {"insert", "update"} =>
            LET f == run.steps[j]
                inputs == run.log[j].inputs
            IN  /\ Len(inputs) = Len(PayloadsOf(j))
                /\ \A i \in DOMAIN inputs :
                    /\ DOMAIN inputs[i] =
                           DOMAIN f.Values
                               \cup (IF f.Action = "insert" THEN {"id"} ELSE {})
                    /\ \A k \in DOMAIN f.Values :
                           inputs[i][k] = Resolved(f.Values[k].str, k, PayloadsOf(j)[i],
                                                   SavedBefore(j), run.user)

\* a run that bound the caller's identity, an earlier step's id and a value
\* of the caller's payload
C11_Witness ==
    /\ run.status = "ok"
    /\ run.user = "u1"
    /\ \E j \in DOMAIN run.log :
           run.steps[j] = InsertUser /\ run.log[j].inputs[1]["title"] = Str("u1")
    /\ \E j \in DOMAIN run.log :
           run.steps[j] \in {InsertA, UpdateA} /\ run.log[j].inputs[1]["title"] = Str("x")

\* C12: once the plain table with the single required text column title
\* exists, running the stored function whose only step inserts
\* {title: "$user.id"} for the user "u1" succeeds and adds exactly one row,
\* with title "u1" and a fresh non-empty id, and the table's descriptor says
\* it is not an auth table.
C12_TasksScenario ==
    [][(/\ run = NoRun
        /\ run'.steps = <<InsertUser>>
        /\ run'.user = "u1"
        /\ "t1" \in DOMAIN live)
       => /\ run'.status = "ok"
          /\ Len(rows'["t1"]) = Len(rows["t1"]) + 1
          /\ SubSeq(rows'["t1"], 1, Len(rows["t1"])) = rows["t1"]
          /\ LET r == rows'["t1"][Len(rows'["t1"])] IN
                /\ r["title"] = Str("u1")
                /\ r["id"].kind = "string" /\ r["id"].str # ""
                /\ \A i \in DOMAIN rows["t1"] : rows["t1"][i]["id"] # r["id"]
          /\ ~Info(cache', DB, "t1", <<>>).table.auth]_vars

\* the steps that record a value in the environment
Recording(f) == (f.Action = "insert" /\ ~f.Multiple) \/ f.Action = "fetch"

\* the value step j records: the id it generated, or every row of its table
\* cut down to the requested columns
RecordedBy(j) ==
    LET f == run.steps[j] IN
    IF f.Action = "fetch"
    THEN LET R == run.log[j].rows[f.Table] IN
         Rows([i \in DOMAIN R |-> [c \in SeqRange(f.Columns) |-> R[i][c]]])
    ELSE run.log[j].inputs[1]["id"]

\* C13: the body of a successful response is the whole environment: its keys
\* are the names of the singular insert steps and of the fetch steps, and
\* under each name stands what the (last) step of that name recorded, the id
\* of the row a singular insert added or all rows of the fetched table
\* restricted to the requested columns.
C13_ResponseIsEnvironment ==
    run.status = "ok" =>
        /\ DOMAIN run.saved =
               {run.steps[j].Name : j \in {i \in DOMAIN run.steps : Recording(run.steps[i])}}
        /\ \A j \in DOMAIN run.steps :
               (/\ Recording(run.steps[j])
                /\ \A i \in DOMAIN run.steps :
                       i > j /\ Recording(run.steps[i])
                           => run.steps[i].Name # run.steps[j].Name)
               => /\ run.saved[run.steps[j].Name] = RecordedBy(j)
                  /\ run.steps[j].Action = "insert" =>
                         \E i \in DOMAIN run.log[j].rows[run.steps[j].Table] :
                             run.log[j].rows[run.steps[j].Table][i]["id"] = RecordedBy(j)

\* a successful run of an insert followed by a fetch: both are in the body
C13_Witness ==
    /\ run.status = "ok"
    /\ run.steps = <<InsertA, FetchTitles>>
    /\ DOMAIN run.saved = {"A", "F"}
    /\ run.saved["A"].kind = "string"
    /\ Len(run.saved["F"].rows) > 0

\* step j is a multiple insert of a stored function
MultiInsert(j) ==
    /\ "Action" \in DOMAIN run.steps[j]
    /\ run.steps[j].Action = "insert" /\ run.steps[j].Multiple

\* step j is an insert command with a list of children
ChildrenInsert(j) ==
    /\ "actionType" \in DOMAIN run.steps[j]
    /\ run.steps[j].actionType = "insert"
    /\ run.steps[j].Children.Table # "" /\ Len(run.steps[j].Children.Data) > 0

\* the caller's list, and the table its elements go to
ListOf(j) ==
    IF MultiInsert(j) THEN Lookup(run.data, run.steps[j].Name).items
    ELSE run.steps[j].Children.Data

TargetOf(j) == IF MultiInsert(j) THEN run.steps[j].Table ELSE run.steps[j].Children.Table

\* C14: an insert over a caller-supplied list of n elements (the multiple
\* insert of a stored function, the children of an insert command) that is
\* reached with a user and a well-formed list adds n rows to its table, the
\* ids of these rows are pairwise distinct, and the environment is left as
\* it was.
C14_MultipleInsertDistinctIds ==
    \A j \in DOMAIN run.steps :
        (Reached(j) /\ run.user # "" /\ (MultiInsert(j) \/ ChildrenInsert(j)))
        => /\ j \in DOMAIN run.log
           /\ LET before == RowsBefore(j)[TargetOf(j)]
                  after == run.log[j].rows[TargetOf(j)]
              IN  /\ Len(after) = Len(before) + Len(ListOf(j))
                  /\ \A a, b \in (Len(before) + 1)..Len(after) :
                         a # b => after[a]["id"] # after[b]["id"]
           /\ run.log[j].saved = SavedBefore(j)

\* the rows R after the rows whose id is idv (an id that is given) took the
\* values of set
UpdatedById(R, idv, set) ==
    [i \in DOMAIN R |->
        IF idv.kind # "nil" /\ R[i]["id"] = idv
        THEN [c \in DOMAIN R[i] |-> IF c \in DOMAIN set THEN set[c] ELSE R[i][c]]
        ELSE R[i]]

\* the rows R after one such update for each of the caller's records, in order
RECURSIVE UpdatedByEach(_, _, _, _)
UpdatedByEach(R, records, template, saved) ==
    IF records = <<>> THEN R
    ELSE UpdatedByEach(
            UpdatedById(R, Lookup(Head(records), "id"),
                        [k \in DOMAIN template |->
                            Resolved(template[k].str, k, Head(records), saved, run.user)]),
            Tail(records), template, saved)

\* C15: an update step whose payload has the shape its cardinality asks for
\* goes through and changes its table exactly as one update by id does for
\* the caller's record (singular) or for each element of the caller's list
\* (multiple): the rows with that id take the resolved template values, all
\* other rows and tables stay as they were.
C15_UpdateById ==
    \A j \in DOMAIN run.steps :
        (/\ Reached(j) /\ ~Malformed(j)
         /\ "Action" \in DOMAIN run.steps[j]
         /\ run.steps[j].Action = "update")
        => /\ j \in DOMAIN run.log
           /\ run.log[j].rows =
                 [RowsBefore(j) EXCEPT ![run.steps[j].Table] =
                     UpdatedByEach(@, PayloadsOf(j), run.steps[j].Values, SavedBefore(j))]

\* row r satisfies the filter triple t: its column equals the literal value,
\* or the caller's value for that column when the triple has no literal
SatisfiesTriple(r, t, payload) ==
    LET v == IF t.Value = "" THEN Lookup(payload, t.Column) ELSE Str(t.Value) IN
    v.kind # "nil" /\ r[t.Column] = v

\* C16: a delete step whose payload is an object goes through and removes
\* from its table exactly the rows that satisfy every one of its filter
\* triples; all other rows and tables stay as they were.
C16_DeleteByTriples ==
    \A j \in DOMAIN run.steps :
        (/\ Reached(j) /\ ~Malformed(j)
         /\ "Action" \in DOMAIN run.steps[j]
         /\ run.steps[j].Action = "delete")
        => /\ j \in DOMAIN run.log
           /\ LET triples == run.steps[j].Filter
                  payload == Lookup(run.data, run.steps[j].Name).obj
                  Keep(r) == \E i \in DOMAIN triples : ~SatisfiesTriple(r, triples[i], payload)
              IN  run.log[j].rows =
                     [RowsBefore(j) EXCEPT ![run.steps[j].Table] = SelectSeq(@, Keep)]

(***************************************************************************)
(* Properties of the filter compiler                                       *)
(***************************************************************************)
\* the text values in use, in their sort order
SortOrder == <<"a", "b", "id1", "id2", "id3", "id4", "p", "z">>

\* the comparison a key other than and/or stands for: equality for a column
\* name, column > value for the column name followed by ">"
Compares(r, key, v) ==
    IF key \in DOMAIN r THEN v.kind # "nil" /\ r[key] = v
    ELSE /\ key = "t1>"
         /\ r["t1"].kind = "string" /\ v.kind = "string"
         /\ \E x, y \in DOMAIN SortOrder :
               SortOrder[x] = r["t1"].str /\ SortOrder[y] = v.str /\ x > y

\* row r satisfies the condition tree: every condition of an and list, at
\* least one element of an or list, the comparison of any other key
RECURSIVE Satisfies(_, _)
Satisfies(r, node) ==
    \A key \in DOMAIN node :
        CASE ToLower(key) = "and" ->
                \A i \in DOMAIN node[key].items : Satisfies(r, node[key].items[i].obj)
          [] ToLower(key) = "or" ->
                \E i \in DOMAIN node[key].items : Satisfies(r, node[key].items[i].obj)
          [] OTHER -> Compares(r, key, node[key])

\* command j is an update that was reached
UpdateReached(j) ==
    /\ Reached(j)
    /\ "actionType" \in DOMAIN run.steps[j]
    /\ run.steps[j].actionType = "update"

\* the update of command j went through and changed exactly the rows of its
\* table that satisfy its condition tree
UpdatedMatching(j) ==
    /\ j \in DOMAIN run.log
    /\ run.log[j].rows =
          [RowsBefore(j) EXCEPT ![run.steps[j].Table] =
              [i \in DOMAIN @ |->
                  IF Satisfies(@[i], run.steps[j].Filter)
                  THEN [c \in DOMAIN @[i] |->
                           IF c \in DOMAIN run.steps[j].Data
                           THEN run.steps[j].Data[c] ELSE @[i][c]]
                  ELSE @[i]]]

\* C17: an update filtered by an and node changes exactly the rows that
\* satisfy every condition of the list, nested trees included, where a key
\* made of a column and an operator compares the column with that operator.
C17_Conjunction ==
    \A j \in DOMAIN run.steps :
        UpdateReached(j) /\ DOMAIN run.steps[j].Filter = {"and"} => UpdatedMatching(j)

\* C18: an update filtered by an or node changes exactly the rows that
\* satisfy at least one element of the list, nested trees included.
C18_Disjunction ==
    \A j \in DOMAIN run.steps :
        UpdateReached(j) /\ DOMAIN run.steps[j].Filter = {"or"} => UpdatedMatching(j)

\* C19: an update filtered by the empty condition tree changes every row of
\* its table.
C19_EmptyTreeMatchesAll ==
    \A j \in DOMAIN run.steps :
        UpdateReached(j) /\ run.steps[j].Filter = EmptyMap
        => /\ j \in DOMAIN run.log
           /\ \A i \in DOMAIN run.log[j].rows[run.steps[j].Table] :
                 \A c \in DOMAIN run.steps[j].Data :
                    run.log[j].rows[run.steps[j].Table][i][c] = run.steps[j].Data[c]

(***************************************************************************)
(* Properties of create followed by the column listing                     *)
(***************************************************************************)
RecognizedTypes ==
    {"text", "string", "number", "real", "boolean", "datetime", "timestamp", "file",
     "blob", "relation"}

\* the names GET /columns/:table_name returns right after the step
ListedAfter(tableName) ==
    ResultNames(FetchTableColumns(cache',
                                  [live |-> live', indexes |-> indexes',
                                   triggers |-> triggers', catalog |-> catalog',
                                   rows |-> rows'],
                                  tableName, FALSE, FALSE).result)

\* C20: whatever was created, listed, renamed or dropped before, when a
\* create succeeds (through the service or through the handler) the column
\* listing that follows names exactly the fields of recognized type of the
\* create spec together with id, created_at and updated_at (and email, for
\* an auth table); a field of unrecognized type is not among them.
C20_CreateThenListColumns ==
    [][/\ \A params \in ColumnParams :
            (\E r \in {ManagerCreate(DB, cache, params, "none")} :
                /\ r.err = ""
                /\ last' = Response("Create", params.name, "")
                /\ live' = r.db.live /\ catalog' = r.db.catalog /\ cache' = r.cache)
            => ListedAfter(params.name) =
                  {params.fields[i].name :
                      i \in {k \in DOMAIN params.fields :
                                ToLower(params.fields[k].type) \in RecognizedTypes}}
                      \cup {"id", "created_at", "updated_at"}
                      \cup (IF params.type = "users" THEN {"email"} ELSE {})
       /\ \A req \in ColumnReqs :
            (\E r \in {CreateTable(DB, req, "none")} :
                /\ r.err = ""
                /\ last' = Response("CreateTable", req.TableName, "")
                /\ live' = r.db.live /\ catalog' = r.db.catalog /\ cache' = cache)
            => ListedAfter(req.TableName) =
                  {req.Fields[i].FieldName :
                      i \in {k \in DOMAIN req.Fields :
                                req.Fields[k].FieldType \in RecognizedTypes}}
                      \cup {"id", "created_at", "updated_at"}]_vars

C22_MissingNameFails ==
    [][(last'.op \in {"Rename", "Drop"} /\ last'.tbl \notin DOMAIN catalog)
        => (last'.err # "" /\ catalog' = catalog /\ live' = live)]_vars

\* C23: the names of the catalog rows that are not system tables are exactly
\* the names of the live tables, in every state the requests lead to.
C23_CatalogMatchesLive ==
    {n \in DOMAIN catalog : ~catalog[n].system} = DOMAIN live

(***************************************************************************)
(* Properties of requests served concurrently                              *)
(***************************************************************************)
\* some statements of the mutation in progress have taken effect, others are
\* still to come
PartiallyApplied ==
    pending.op \in {"CreateTable", "DeleteTable"} /\ pending.pc > 1

\* C24: while only some statements of a mutation have taken effect, no other
\* operation takes a step: the next step is the mutation's own next statement.
C24_NoInterleaving ==
    [][PartiallyApplied => pending' # pending]_vars

\* C25: a column listing that runs while other requests are served returns,
\* and caches, what it would return and cache had it read one committed state:
\* the state its pragma query read or the state its descriptor query read.
C25_ReadSeesOneState ==
    [][(pending.op = "Columns" /\ pending'.op = "none") =>
         LET t == pending.req.TableName
             key == ColumnsCacheKey(t)
             got == ColumnsAfterPragma(cache, DB, key, t, pending.fetchAuthColumn,
                                       pending.result)
         IN  /\ cache' = got.cache
             /\ \E d \in {pending.snapshot, DB} :
                    got = ColumnsFromDb(cache, d, key, t, pending.fetchAuthColumn)]_vars

(***************************************************************************)
(* Properties of the indexes and of the generated DDL                      *)
(***************************************************************************)
\* C26: DropIndexes of an index that does not exist returns success and leaves
\* the storage as it was; so does a DropIndexes that repeats the one before it.
C26_DropIndexesIdempotent ==
    [][/\ (last'.op = "DropIndexes" /\ last'.tbl \notin DOMAIN indexes)
            => (last'.err = "" /\ UNCHANGED Storage)
       /\ (last.op = "DropIndexes" /\ last.err = ""
             /\ last'.op = "DropIndexes" /\ last'.tbl = last.tbl)
            => (last'.err = "" /\ UNCHANGED Storage)]_vars

\* idx_missing was dropped with success while a table and its index exist
C26_Witness ==
    /\ last.op = "DropIndexes"
    /\ last.tbl = "idx_missing"
    /\ last.err = ""
    /\ "idx_title" \in DOMAIN indexes

\* the clause list has the order: id, the auth columns of a users table, the
\* columns `names` in that order, created_at, updated_at, then UNIQUE clauses
\* only, then FOREIGN KEY clauses only
ClaimedOrder(clauses, isUsers, names) ==
    LET k == IF isUsers THEN 3 ELSE 0
        n == Len(names)
        m == 1 + k + n + 2
        IsColumn(i, name) == clauses[i].kind = "column" /\ clauses[i].col.name = name
    IN  /\ Len(clauses) >= m
        /\ IsColumn(1, "id") /\ clauses[1].col.pk
        /\ isUsers => IsColumn(2, "email") /\ IsColumn(3, "password") /\ IsColumn(4, "salt")
        /\ \A i \in 1..n : IsColumn(1 + k + i, names[i])
        /\ IsColumn(m - 1, "created_at") /\ IsColumn(m, "updated_at")
        /\ \E u \in m..Len(clauses) :
              /\ \A i \in (m + 1)..u : clauses[i].kind = "unique"
              /\ \A i \in (u + 1)..Len(clauses) : clauses[i].kind = "fk"

RECURSIVE NamesWhere(_, _)
\* the names whose field is supported, in input order
NamesWhere(names, supported) ==
    IF names = <<>> THEN <<>>
    ELSE (IF Head(supported) THEN <<Head(names)>> ELSE <<>>)
            \o NamesWhere(Tail(names), Tail(supported))

\* C27: whatever the state, a create that succeeds has formatted its statement
\* from a clause list in the fixed order: id, auth columns, supported fields
\* in input order, timestamps, UNIQUE clauses, FOREIGN KEY clauses.  The
\* list, and the table the create leaves, depend on the create spec only.
C27_ColumnOrderFixed ==
    [][/\ (last'.op = "Create" /\ last'.err = "") =>
            \A params \in DDLParams :
                (/\ params.name = last'.tbl
                 /\ params.name \notin DOMAIN live
                 /\ live' = Put(live, params.name, DefOf(CreateClauses(params))))
                => ClaimedOrder(
                      CreateClauses(params), params.type = "users",
                      NamesWhere([i \in DOMAIN params.fields |-> params.fields[i].name],
                                 [i \in DOMAIN params.fields |->
                                    ConvertTypeToSQLiteType(params.fields[i]) # ""]))
       /\ (last'.op = "CreateTable" /\ last'.err = "") =>
            \A req \in DDLReqs :
                (/\ req.TableName = last'.tbl
                 /\ req.TableName \notin DOMAIN live
                 /\ live' = Put(live, req.TableName, DefOf(ReqClauses(req))))
                => ClaimedOrder(
                      ReqClauses(req), req.Type = "users",
                      NamesWhere([i \in DOMAIN req.Fields |-> req.Fields[i].FieldName],
                                 [i \in DOMAIN req.Fields |->
                                    fields_convertTypeToSQLiteType(req.Fields[i]) # ""]))]_vars

\* a users table with three fields, a UNIQUE and a FOREIGN KEY clause has
\* been created by the service
C27_Witness ==
    /\ last = Response("Create", "t1", "")
    /\ "t1" \in DOMAIN live
    /\ Len(live["t1"].cols) = 9
    /\ live["t1"].uniques # <<>>
    /\ live["t1"].fks # <<>>

\* the column type the mapping is to give a type name, in any case of its
\* letters; "" is no column
ClaimedType(t) ==
    CASE t \in {"text", "Text", "TEXT", "string", "String"} -> "TEXT"
      [] t \in {"number", "Number", "real", "REAL"} -> "REAL"
      [] t \in {"boolean", "Boolean"} -> "BOOLEAN"
      [] t \in {"datetime", "DateTime", "timestamp", "Timestamp"} -> "DATETIME"
      [] t \in {"file", "File", "blob", "BLOB"} -> "BLOB"
      [] t \in {"relation", "Relation"} -> "TEXT"
      [] OTHER -> ""

\* table definition def has the column and the foreign key claimed for a
\* field `value` of type t
MappedAsClaimed(def, t) ==
    /\ IF ClaimedType(t) = ""
       THEN "value" \notin ColNames(def)
       ELSE "value" \in ColNames(def) /\ ColumnOf(def, "value").type = ClaimedType(t)
    /\ (\E k \in DOMAIN def.fks : def.fks[k].from = "value")
          <=> t \in {"relation", "Relation"}

\* C28: a table created from one field of type t has the column claimed for t
\* in whatever case t is written (TEXT, REAL, BOOLEAN, DATETIME, BLOB, or
\* TEXT with a foreign key for relation), and no column for any other name.
C28_TypeMapping ==
    [][/\ (last'.op = "Create" /\ last'.err = "") =>
            \A t \in TypeNames, type \in {"plain", "users"} :
                (/\ last'.tbl \notin DOMAIN live
                 /\ live' = Put(live, last'.tbl,
                                CreateDef([name |-> last'.tbl, type |-> type,
                                           fields |-> <<TypedField(t)>>,
                                           indexes |-> <<>>])))
                => MappedAsClaimed(live'[last'.tbl], t)
       /\ (last'.op = "CreateTable" /\ last'.err = "") =>
            \A t \in TypeNames, type \in {"plain", "users"} :
                (/\ last'.tbl \notin DOMAIN live
                 /\ live' = Put(live, last'.tbl,
                                ReqDef([TableName |-> last'.tbl, IDType |-> "string",
                                        Fields |-> <<ReqFieldOf(TypedField(t))>>,
                                        Type |-> type])))
                => MappedAsClaimed(live'[last'.tbl], t)]_vars

(***************************************************************************)
(* Properties of auth tables and of the column cache                       *)
(***************************************************************************)
\* the live table was created with kind users: the auth columns follow its id
HasAuthColumns(def) ==
    /\ Len(def.cols) >= 4
    /\ <<def.cols[2], def.cols[3], def.cols[4]>> = AuthFields

\* C29: a table the catalog marks as auth is live and has the columns email,
\* password, salt, id, created_at and updated_at; and the catalog marks a
\* table as auth exactly when it was created with the auth columns.
C29_AuthTableColumns ==
    \A t \in DOMAIN catalog :
        /\ catalog[t].auth =>
              /\ t \in DOMAIN live
              /\ {"email", "password", "salt", "id", "created_at", "updated_at"}
                     \subseteq ColNames(live[t])
        /\ t \in DOMAIN live => (catalog[t].auth <=> HasAuthColumns(live[t]))

\* C30: no entry of the column cache holds the password or the salt column
\* of a table that the catalog marks as auth, so no call is answered from the
\* cache with columns that its redaction removes.
C30_CacheHoldsNoAuthColumns ==
    \A t \in DOMAIN catalog :
        (catalog[t].auth /\ ColumnsCacheKey(t) \in DOMAIN cache)
            => ResultNames(cache[ColumnsCacheKey(t)]) \cap {"password", "salt"} = {}

(***************************************************************************)
(* Triggers, filters, catalog descriptors                                  *)
(***************************************************************************)
HasTrigger(t) == \E tr \in DOMAIN triggers : triggers[tr] = t

\* C31: after any sequence of Create, Rename and Drop calls of the table
\* service every live table has an updated_at trigger attached to it, and no
\* Create has failed because the trigger of the expected name exists already.
C31_EveryTableHasTrigger ==
    /\ \A t \in DOMAIN live : HasTrigger(t)
    /\ ~(last.op = "Create" /\ last.err = "trigger already exists")

\* the rows of a table that the compiled query selects
Selected(query, R) ==
    {i \in DOMAIN R : query.where = <<>> \/ Holds(query.where, R[i])}

\* C32: the predicate compiled from a condition map of several keys includes
\* the condition of every key, whatever the order in which the map yields its
\* keys: every query applyFilter can return for the tree of an update selects
\* exactly the rows that satisfy the condition of each key.
C32_EveryKeyCompiled ==
    \A j \in DOMAIN run.steps :
        UpdateReached(j) /\ Cardinality(DOMAIN run.steps[j].Filter) > 1
        => \A query \in applyFilter(Table(run.steps[j].Table), run.steps[j].Filter) :
              /\ ~query.panic
              /\ Selected(query, RowsBefore(j)[run.steps[j].Table])
                    = {i \in DOMAIN RowsBefore(j)[run.steps[j].Table] :
                          Satisfies(RowsBefore(j)[run.steps[j].Table][i],
                                    run.steps[j].Filter)}

\* the names of the indexes that exist on the live table
LiveIndexes(t) == {i \in DOMAIN indexes : indexes[i].tbl = t}

\* the names of the index list stored in the descriptor
StoredIndexes(t) ==
    {JsonUnmarshal(catalog[t].indexes).items[i].name :
        i \in DOMAIN JsonUnmarshal(catalog[t].indexes).items}

\* C33: after any sequence of Create and DropIndexes calls the index list
\* stored in the descriptor of a table names exactly the indexes that exist
\* on the live table.
C33_StoredIndexesAreLive ==
    \A t \in DOMAIN catalog : StoredIndexes(t) = LiveIndexes(t)

(***************************************************************************)
(* Properties of the caller's identity                                     *)
(***************************************************************************)
\* the request was sent without a caller and reached a value that is the
\* user token: a step of a stored function, a command, or the insert form
TokenWithoutCaller(r) ==
    /\ r.user = ""
    /\ \E j \in DOMAIN r.steps :
          LET st == r.steps[j] IN
          IF "Action" \in DOMAIN st
          THEN /\ j <= Len(r.log) + 1
               /\ st.Action \in {"insert", "update"}
               /\ \E c \in DOMAIN st.Values : st.Values[c] = Str("$user.id")
          ELSE IF st.actionType = "InsertData"
          THEN \E k \in FormKeys(st.Form) : st.Form[k] = "$user.id"
          ELSE /\ j <= Len(r.log) + 1
               /\ st.actionType \in {"insert", "update"}
               /\ \E c \in DOMAIN st.Data : st.Data[c] = Str("$user")

\* C34: a request without a caller whose value is the user token is answered
\* with an error and writes nothing.
C34_TokenNeedsCaller ==
    [][(run = NoRun /\ run' # NoRun /\ TokenWithoutCaller(run'))
         => (run'.err # "" /\ rows' = rows)]_vars

\* the insert request of an authenticated caller was answered with success
InsertDataDone(r) ==
    /\ r.steps # <<>>
    /\ "actionType" \in DOMAIN r.steps[1]
    /\ r.steps[1].actionType = "InsertData"
    /\ r.user # ""
    /\ r.status = "ok"

\* C35: an insert request of an authenticated caller that is answered with
\* success hands the caller's id to the table service, and stores it, in
\* every column whose form value is the user token.
C35_InsertDataBindsCaller ==
    [][(run = NoRun /\ InsertDataDone(run'))
         => \A k \in FormKeys(run'.steps[1].Form) :
               run'.steps[1].Form[k] = "$user.id"
               => /\ run'.log[1].inputs[1][k] = Str(run'.user)
                  /\ \E i \in DOMAIN rows'[run'.steps[1].Table] :
                        /\ i \notin DOMAIN rows[run'.steps[1].Table]
                        /\ rows'[run'.steps[1].Table][i][k] = Str(run'.user)]_vars

(***************************************************************************)
(* Properties of the row listing                                           *)
(***************************************************************************)
\* the rows were listed of a table whose descriptor says auth
FetchedAuthRows(r) ==
    /\ r.steps # <<>>
    /\ "actionType" \in DOMAIN r.steps[1]
    /\ r.steps[1].actionType = "FetchRows"
    /\ r.steps[1].Table \in DOMAIN catalog
    /\ catalog[r.steps[1].Table].auth

\* C36: the rows listed of an auth table never hold the column password or
\* salt, whatever was created, described and dropped under its name before.
C36_FetchRowsRedacts ==
    [][(run = NoRun /\ FetchedAuthRows(run'))
         => \A i \in DOMAIN run'.saved["data"].rows :
               DOMAIN run'.saved["data"].rows[i] \cap {"password", "salt"} = {}]_vars

(***************************************************************************)
(* Properties of Migrate                                                   *)
(***************************************************************************)
SystemNames == {Databases[i].name : i \in DOMAIN Databases}

\* C37: for every table in the catalog, the system tables seeded by Migrate
\* included, Info with the default attributes succeeds and returns the
\* descriptor of that table with its index list decoded: the indexes of the
\* table, none when it has none.
C37_DescribeEveryCatalogTable ==
    \A t \in DOMAIN catalog :
        /\ Info(cache, DB, t, <<>>).err = ""
        /\ Info(cache, DB, t, <<>>).table.name = t
        /\ {Info(cache, DB, t, <<>>).table.index[i].name :
               i \in DOMAIN Info(cache, DB, t, <<>>).table.index} = LiveIndexes(t)

\* C38: Migrate on a database that has been migrated succeeds and leaves the
\* catalog with its one row for each system table.
C38_MigrateIdempotent ==
    [][(last'.op = "Migrate" /\ SystemNames \subseteq DOMAIN catalog)
         => (last'.err = "" /\ catalog' = catalog)]_vars

(***************************************************************************)
(* Properties of a step with an unknown action                             *)
(***************************************************************************)
\* step j was started and its action is not insert, update, delete or fetch
UnknownStep(j) ==
    /\ Reached(j)
    /\ IF "Action" \in DOMAIN run.steps[j]
       THEN run.steps[j].Action \notin {"insert", "update", "delete", "fetch"}
       ELSE run.steps[j].actionType \notin {"insert", "update", "delete", "fetch"}

\* C39: a step whose action is not insert, update, delete or fetch completes
\* without changing the rows or the execution environment; the step after it
\* is started, and when it is the last step the invocation commits.
C39_UnknownActionIsSkipped ==
    \A j \in DOMAIN run.steps :
        UnknownStep(j)
        => /\ j \in DOMAIN run.log
           /\ run.log[j].rows = RowsBefore(j)
           /\ run.log[j].saved = SavedBefore(j)
           /\ j < Len(run.steps) => Reached(j + 1)
           /\ j = Len(run.steps) => run.status = "ok"

\* an invocation that committed the insert that follows an unknown step
C39_Witness ==
    /\ run.status = "ok"
    /\ Len(run.steps) = 2
    /\ UnknownStep(1)
    /\ Len(run.log) = 2
    /\ run.log[2].rows # run.pre
    /\ rows = run.log[2].rows

(***************************************************************************)
(* Properties of the batch                                                 *)
(***************************************************************************)
\* the schedulers that run with the backup job
RunningCrons ==
    {i \in DOMAIN batch.crons : batch.crons[i].running /\ batch.crons[i].entries > 0}

\* C40: under any interleaving of the goroutines of startCron with
\* restartCron at most one scheduler that carries the backup job is running,
\* and it is the one held in Batch.cron; a scheduler that restartCron has
\* stopped or replaced is never started afterwards.
C40_OneCronRuns == RunningCrons \subseteq {batch.cron}

====
